---------------------------- MODULE Spec2Model ----------------------------
(***************************************************************************)
(* Verification model of the FX-rate forecasting pipeline.                 *)
(*                                                                         *)
(* Components, each with its own specification over the shared variables:  *)
(*   SpecPolicy   src/signals/policy.py            decision policy         *)
(*   SpecSilver   src/lambdas/bronze_to_silver,    bronze -> silver merge  *)
(*                scripts/backfill_silver.py                               *)
(*   SpecRun      src/pipeline/run_daily_h7.py,    daily run and promotion *)
(*                src/artifacts/write_latest.py                            *)
(*   SpecFeat     src/features/h7.py               feature builder         *)
(*   SpecInfer    src/models/run_inference_h7.py   output contract         *)
(*   SpecGold     src/lambdas/silver_to_gold       silver -> gold merge    *)
(*   SpecPrep     src/models/run_inference_h7.py   feature selection       *)
(*   SpecEngines  both merge lambdas               watermark discipline    *)
(*   SpecCtx      src/lambdas/silver_to_gold       windows of the features *)
(*   SpecFind     src/models/run_inference_h7.py   model artifact lookup   *)
(*   SpecFetch    scripts/backfill_bronze.py       fetch with retry        *)
(***************************************************************************)
EXTENDS Integers, Sequences, FiniteSets, TLC

VARIABLES
    \* decision policy: one call of each function on the same inputs
    pol_t, pol_p, pol_labels, pol_conf, pol_pc,
    \* bronze -> silver, one series: the bronze snapshots, the silver rows of
    \* all partitions, the silver watermark, the wall clock, and the records
    \* of the last two runs with the source times of all rows ever merged
    bronze, silver, sil_wm, sil_runs, sil_last, sil_prev, sil_merged,
    \* daily run: position of main, number of calls made, files of the
    \* run directory, downstream effects of the run, the stage that failed,
    \* the latest directory and its content when main was entered
    run_pc, run_count, run_dir, run_log, run_fail, latest, latest_before,
    \* promote_to_latest: position, batch, loop index, staging directory,
    \* the latest directory when it was called, and the fault it met
    prom_pc, prom_files, prom_i, prom_temp, prom_before, prom_fault,
    \* feature builder: the gold frame passed in, the outcome of the call
    feat_gold, feat_out, feat_pc,
    \* inference runner: the inputs of one call, its outcome, the output
    \* file
    inf_in, inf_out, inf_file, inf_pc,
    \* silver -> gold, one series: the value in each silver partition, the
    \* rows of the gold file, the gold watermark, the number of runs made and
    \* the record of the last run
    gold_silver, gold_file, gold_wm, gold_runs, gold_last,
    \* feature selection for inference: the inputs of one call, its outcome
    prep_in, prep_out, prep_pc,
    \* fetch_with_retry: position, loop counter, outcomes of the fetches of
    \* this call, the delays slept, the result, and the number of calls made
    fetch_pc, fetch_attempt, fetch_hist, fetch_sleeps, fetch_result, fetch_calls,
    \* _find_file: the directory and file type of one call, its outcome
    ff_in, ff_out, ff_pc,
    \* feature windows of an incremental gold run: the inputs of one call, its
    \* outcome
    ctx_in, ctx_out, ctx_pc

policyVars == <<pol_t, pol_p, pol_labels, pol_conf, pol_pc>>
silverVars == <<bronze, silver, sil_wm, sil_runs, sil_last, sil_prev, sil_merged>>

runVars == <<run_pc, run_count, run_dir, run_log, run_fail, latest, latest_before>>
promVars == <<prom_pc, prom_files, prom_i, prom_temp, prom_before, prom_fault>>

featVars == <<feat_gold, feat_out, feat_pc>>

inferVars == <<inf_in, inf_out, inf_file, inf_pc>>

goldVars == <<gold_silver, gold_file, gold_wm, gold_runs, gold_last>>

prepVars == <<prep_in, prep_out, prep_pc>>

fetchVars == <<fetch_pc, fetch_attempt, fetch_hist, fetch_sleeps, fetch_result, fetch_calls>>

findVars == <<ff_in, ff_out, ff_pc>>

ctxVars == <<ctx_in, ctx_out, ctx_pc>>

vars == <<policyVars, silverVars, runVars, promVars, featVars, inferVars, goldVars,
          prepVars,
          fetchVars,
          findVars,
          ctxVars>>

\* what an action of one component leaves alone
notPolicy == <<silverVars, runVars, promVars, featVars, inferVars, goldVars, prepVars, fetchVars, findVars, ctxVars>>
notSilver == <<policyVars, runVars, promVars, featVars, inferVars, goldVars, prepVars, fetchVars, findVars, ctxVars>>
notRun == <<policyVars, silverVars, featVars, inferVars, goldVars, prepVars, fetchVars, findVars, ctxVars>>
notFeat == <<policyVars, silverVars, runVars, promVars, inferVars, goldVars, prepVars, fetchVars, findVars, ctxVars>>
notInfer == <<policyVars, silverVars, runVars, promVars, featVars, goldVars, prepVars, fetchVars, findVars, ctxVars>>
notGold == <<policyVars, silverVars, runVars, promVars, featVars, inferVars, prepVars, fetchVars, findVars, ctxVars>>
notPrep == <<policyVars, silverVars, runVars, promVars, featVars, inferVars, goldVars, fetchVars, findVars, ctxVars>>
notFetch == <<policyVars, silverVars, runVars, promVars, featVars, inferVars, goldVars, prepVars, findVars, ctxVars>>
notFind == <<policyVars, silverVars, runVars, promVars, featVars, inferVars, goldVars, prepVars, fetchVars, ctxVars>>
notCtx == <<policyVars, silverVars, runVars, promVars, featVars, inferVars, goldVars, prepVars, fetchVars, findVars>>

(***************************************************************************)
(* DECISION POLICY  (src/signals/policy.py)                                *)
(*                                                                         *)
(* Probabilities and thresholds are real numbers on a two-level grid: a    *)
(* number [c, f] stands for c/Scale + f*(EPS/EpsFine), with EPS = 1e-10.   *)
(* The fine part stays within a few EPS, far below one coarse step, so     *)
(* the order of two numbers is the lexicographic order of (c, f) and sums  *)
(* and differences are componentwise.  Floating-point rounding (about      *)
(* 1e-16) is not modelled; it is what EPS is there to absorb.              *)
(***************************************************************************)
Scale == 10
EpsFine == 2
MaxFine == EpsFine + 1

Num(c, f) == [c |-> c, f |-> f]
Lt(a, b) == a.c < b.c \/ (a.c = b.c /\ a.f < b.f)
Le(a, b) == ~Lt(b, a)
Sub(a, b) == Num(a.c - b.c, a.f - b.f)
Add(a, b) == Num(a.c + b.c, a.f + b.f)
Zero == Num(0, 0)
One == Num(Scale, 0)
\* 0.5 < t, stated without dividing Scale
GtHalf(t) == 2 * t.c > Scale \/ (2 * t.c = Scale /\ t.f > 0)

\* EPS = 1e-10
EPS == Num(0, EpsFine)

m_ValidThreshold(t) == GtHalf(t) /\ Le(t, One)
\* if not (0.5 < t < 1.0): raise ValueError
ValidThreshold(t) == GtHalf(t) /\ Lt(t, One)

m_up_mask(p, t) == Lt(t, p)
\* up_mask = p_up >= (t - EPS)
up_mask(p, t) == Le(Sub(t, EPS), p)

\* down_mask = p_up <= (threshold_low + EPS), threshold_low = 1.0 - t
down_mask(p, t) == Le(p, Add(Sub(One, t), EPS))

\* out = "SIDEWAYS"; out[down_mask] = "DOWN"; out[up_mask] = "UP"
\* (the UP assignment comes last and overrides DOWN)
LabelOf(p, t) ==
    LET out0 == "SIDEWAYS"
        out1 == IF down_mask(p, t) THEN "DOWN" ELSE out0
        out2 == IF up_mask(p, t) THEN "UP" ELSE out1
    IN  out2

\* The outcome of a call: the exception it raised, or the value it returned.
Raise(e) == [err |-> e, out |-> <<>>]
Return(v) == [err |-> "none", out |-> v]
NotCalled == [err |-> "not_called", out |-> <<>>]

apply_threshold_policy(p_up, t) ==
    IF ~ValidThreshold(t) THEN Raise("ValueError")
    ELSE Return([i \in DOMAIN p_up |-> LabelOf(p_up[i], t)])

\* A confidence is the fraction num/den with den = 1 - t.
Frac(n, d) == [num |-> n, den |-> d]

m_np_clip(x) == x
\* np.clip(x, 0.0, 1.0)
np_clip(x) ==
    IF Lt(x.num, Zero) THEN Frac(Zero, x.den)
    ELSE IF Lt(x.den, x.num) THEN Frac(x.den, x.den)
    ELSE x

\* a confidence that measures the distance to 1 - t under UP
m_confidence_from_p(p_up, t) ==
    LET decisions == apply_threshold_policy(p_up, t)
        den == Sub(One, t)
    IN  IF decisions.err # "none" THEN decisions
        ELSE Return([i \in DOMAIN p_up |->
                IF decisions.out[i] = "UP"
                    THEN np_clip(Frac(Sub(One, p_up[i]), den))
                ELSE IF decisions.out[i] = "DOWN"
                    THEN np_clip(Frac(Sub(den, p_up[i]), den))
                ELSE Frac(Zero, den)])

confidence_from_p(p_up, t) ==
    LET decisions == apply_threshold_policy(p_up, t)
        den == Sub(One, t)
    IN  IF decisions.err # "none" THEN decisions
        ELSE Return([i \in DOMAIN p_up |->
                IF decisions.out[i] = "UP"
                    THEN np_clip(Frac(Sub(p_up[i], t), den))
                ELSE IF decisions.out[i] = "DOWN"
                    THEN np_clip(Frac(Sub(den, p_up[i]), den))
                ELSE Frac(Zero, den)])

\* Thresholds tried: every coarse point from just below 0.5 to just above 1,
\* each with fine offsets.
TGrid == {Num(c, f) : c \in ((Scale \div 2) - 1)..(Scale + 1), f \in (-MaxFine)..MaxFine}

\* Probabilities tried for threshold t: every coarse point of [0, 1], and all
\* points within MaxFine fine steps of t and of 1 - t.
PGrid(t) ==
    {Num(c, 0) : c \in 0..Scale}
    \cup {Num(t.c, t.f + d) : d \in (-MaxFine)..MaxFine}
    \cup {Num(Scale - t.c, d - t.f) : d \in (-MaxFine)..MaxFine}

PolicyInit ==
    /\ pol_t \in TGrid
    /\ pol_p \in {<<p, q>> : p \in PGrid(pol_t), q \in PGrid(pol_t)}
    /\ pol_labels = NotCalled
    /\ pol_conf = NotCalled
    /\ pol_pc = "input"

PolicyIdle ==
    /\ pol_t = Zero
    /\ pol_p = <<>>
    /\ pol_labels = NotCalled
    /\ pol_conf = NotCalled
    /\ pol_pc = "idle"

CallApplyThresholdPolicy ==
    /\ pol_pc = "input"
    /\ pol_labels' = apply_threshold_policy(pol_p, pol_t)
    /\ pol_pc' = "applied"
    /\ UNCHANGED <<pol_t, pol_p, pol_conf>>
    /\ UNCHANGED notPolicy

CallConfidenceFromP ==
    /\ pol_pc = "applied"
    /\ pol_conf' = confidence_from_p(pol_p, pol_t)
    /\ pol_pc' = "done"
    /\ UNCHANGED <<pol_t, pol_p, pol_labels>>
    /\ UNCHANGED notPolicy

PolicyNext ==
    \/ CallApplyThresholdPolicy
    \/ CallConfidenceFromP

(***************************************************************************)
(* BRONZE -> SILVER  (src/lambdas/bronze_to_silver/handler.py,             *)
(*                    scripts/backfill_silver.py)                          *)
(*                                                                         *)
(* One series is modelled; process_series works on one series at a time    *)
(* and every key it touches carries the series id.  Instants are numbered  *)
(* in the order they occur, ingestions and runs separately: the k-th       *)
(* bronze snapshot is written at instant k under ingest_ts=<compact k>     *)
(* and its sidecar holds retrieved_at_utc=<ISO k> of the same instant;     *)
(* the n-th run stamps processed_at and its default run_id with instant n. *)
(* All modelled instants lie in one calendar year.                         *)
(***************************************************************************)
MaxDate == 2
MaxValue == 1
MaxFiles == 2
MaxRuns == 3
MaxFaults == 1

Dates == 1..MaxDate
NoValue == 0

Max(S) == CHOOSE x \in S : \A y \in S : y <= x

\* A timestamp string: "compact" is %Y%m%dT%H%M%SZ (bronze_ingestion
\* handler.py:45), "iso" is datetime.isoformat() (handler.py:58).
Stamp(fmt, ts) == [fmt |-> fmt, ts |-> ts]

\* Python's str comparison of two timestamp strings.  Within one format the
\* order is the order of the instants; across formats "2025-..." sorts
\* before "20250..." because "-" < "0", whatever the instants are.
StrLess(a, b) ==
    IF a.fmt = b.fmt THEN a.ts < b.ts
    ELSE a.fmt = "iso" /\ b.fmt = "compact"

\* list_bronze_files: files with ingest_ts > after_ingest_ts ("" / None: all)
m_list_bronze_files(after_ingest_ts) == bronze
list_bronze_files(after_ingest_ts) ==
    {f \in bronze : after_ingest_ts = 0 \/ f.ts > after_ingest_ts}

\* meta.get("retrieved_at_utc", file_info["ingest_ts"])
IngestedAt(f, metaRead) ==
    IF metaRead THEN Stamp("iso", f.ts) ELSE Stamp("compact", f.ts)

\* parse_observations: one record per observation with a date and a value
parse_observations(f, ingested_at, run_id) ==
    {[obs_date |-> d, value |-> f.obs[d], ingested_at |-> ingested_at,
      run_id |-> run_id, raw_s3_key |-> f.ts, processed_at |-> 0] :
        d \in {x \in Dates : f.obs[x] # NoValue}}

m_ReadAll(files, unreadable, nometa, run_id) ==
    UNION {parse_observations(f, Stamp("iso", f.ts), run_id) :
            f \in {g \in files : g.ts \notin unreadable \cup nometa}}
\* the loop over bronze_files: a file whose read raises is skipped
ReadAll(files, unreadable, nometa, run_id) ==
    UNION {parse_observations(f, IngestedAt(f, f.ts \notin nometa), run_id) :
            f \in {g \in files : g.ts \notin unreadable}}

\* read_existing_silver: the partitions of obs_dates that can be read
read_existing_silver(obs_dates, unreadableDates) ==
    {r \in silver : r.obs_date \in obs_dates /\ r.obs_date \notin unreadableDates}

\* sort_values("ingested_at", ascending=False) then
\* drop_duplicates(["series_id", "obs_date"], keep="first"): per obs_date one
\* of the rows with the greatest ingested_at string survives; the sort is
\* not stable, so which of several equal ones is unspecified.
FirstAfterSort(rows, d) ==
    {r \in rows : r.obs_date = d /\
        \A q \in rows : q.obs_date = d => ~StrLess(r.ingested_at, q.ingested_at)}

m_DropDuplicates(rows) == {rows}
\* the set of possible results of the sort and drop_duplicates
DropDuplicates(rows) ==
    LET ds == {r.obs_date : r \in rows}
    IN  {{pick[d] : d \in ds} :
            pick \in {g \in [ds -> rows] : \A d \in ds : g[d] \in FirstAfterSort(rows, d)}}

\* combined_df["processed_at"] = now
StampProcessed(rows, now) == {[r EXCEPT !.processed_at = now] : r \in rows}

\* write_silver_partitions: every obs_date of df gets its partition rewritten
write_silver_partitions(df) ==
    {r \in silver : r.obs_date \notin {q.obs_date : q \in df}} \cup df

\* update_watermark is the statement after the data write of a run: it is
\* reached only when every put_object of the data has returned
m_ReachesWatermark(putData) == TRUE
ReachesWatermark(putData) == putData

\* the groups of df.groupby("obs_date") that are put, in ascending obs_date,
\* before the put of partition failDate raises
PutBefore(df, putData, failDate) ==
    IF putData THEN df ELSE {r \in df : r.obs_date < failDate}

\* latest_obs_date = str(combined_df["obs_date"].max())
latest_obs_date(combined_df) == Max({r.obs_date : r \in combined_df})

NoWatermark == [last_ingest_ts |-> 0, last_obs_date |-> 0]
NoRun == [kind |-> "none", full_refresh |-> FALSE, status |-> "none", wm_read |-> TRUE,
          files |-> 0, unreadable |-> {}, nometa |-> {}, unreadableDates |-> {},
          put_ok |-> TRUE, before |-> {}]

SilverInit ==
    /\ bronze = {}
    /\ silver = {}
    /\ sil_wm = NoWatermark
    /\ sil_runs = 0
    /\ sil_last = NoRun
    /\ sil_prev = NoRun
    /\ sil_merged = {}

SilverIdle ==
    /\ bronze = {}
    /\ silver = {}
    /\ sil_wm = NoWatermark
    /\ sil_runs = 0
    /\ sil_last = NoRun
    /\ sil_prev = NoRun
    /\ sil_merged = {}

\* bronze_ingestion write_to_s3 / backfill_bronze: a new snapshot, append-only
BronzeIngest ==
    /\ Cardinality(bronze) < MaxFiles
    /\ \E obs \in [Dates -> 0..MaxValue] :
        bronze' = bronze \cup {[ts |-> Cardinality(bronze) + 1, obs |-> obs]}
    /\ UNCHANGED <<silver, sil_wm, sil_runs, sil_last, sil_prev, sil_merged>>
    /\ UNCHANGED notSilver

\* what is remembered of a run: its mode, status and read outcomes, whether
\* every put_object returned, the number of bronze files present, and the
\* silver rows before it
RunRecord(kind, full, status, unreadable, nometa, unreadableDates, wm_read) ==
    [kind |-> kind, full_refresh |-> full, status |-> status, wm_read |-> wm_read,
     files |-> Cardinality(bronze),
     unreadable |-> unreadable, nometa |-> nometa,
     unreadableDates |-> unreadableDates, put_ok |-> TRUE, before |-> silver]

\* handler.process_series(bucket, series_id, run_id, full_refresh), with the
\* outcome of each storage read chosen by the environment
ProcessSeries ==
    /\ sil_runs < MaxRuns
    /\ \E full_refresh \in BOOLEAN, wmRead \in BOOLEAN,
          unreadable \in SUBSET {f.ts : f \in bronze},
          nometa \in SUBSET {f.ts : f \in bronze},
          unreadableDates \in SUBSET Dates :
        LET now == sil_runs + 1
            run_id == now
            watermark == IF full_refresh \/ ~wmRead THEN NoWatermark ELSE sil_wm
            last_ingest_ts == watermark.last_ingest_ts
            bronze_files == list_bronze_files(last_ingest_ts)
            all_records == ReadAll(bronze_files, unreadable, nometa, run_id)
            latest_ingest_ts ==
                Max({last_ingest_ts} \cup
                    {f.ts : f \in {g \in bronze_files : g.ts \notin unreadable}})
            new_obs_dates == {r.obs_date : r \in all_records}
            existing_df == read_existing_silver(new_obs_dates, unreadableDates)
            combined_df == existing_df \cup all_records
        IN  /\ Cardinality(unreadable) + Cardinality(nometa)
                + Cardinality(unreadableDates) + (IF wmRead THEN 0 ELSE 1) <= MaxFaults
            /\ ~wmRead => (~full_refresh /\ sil_wm # NoWatermark)
            /\ unreadable \subseteq {f.ts : f \in bronze_files}
            /\ nometa \subseteq {f.ts : f \in bronze_files} \ unreadable
            /\ unreadableDates \subseteq {r.obs_date : r \in silver} \cap new_obs_dates
            /\ sil_runs' = now
            /\ sil_prev' = [sil_last EXCEPT !.before = {}]
            /\ UNCHANGED bronze
            /\ IF bronze_files = {} THEN
                    /\ sil_last' = RunRecord("lambda", full_refresh, "no_new_files",
                                             unreadable, nometa, unreadableDates, wmRead)
                    /\ UNCHANGED <<silver, sil_wm, sil_merged>>
               ELSE IF all_records = {} THEN
                    /\ sil_last' = RunRecord("lambda", full_refresh, "no_records",
                                             unreadable, nometa, unreadableDates, wmRead)
                    /\ UNCHANGED <<silver, sil_wm, sil_merged>>
               ELSE \E deduped \in DropDuplicates(combined_df) :
                    \E putData \in BOOLEAN, putWm \in BOOLEAN, failDate \in Dates :
                    LET out == StampProcessed(deduped, now)
                        put == PutBefore(out, putData, failDate)
                        wrote == ReachesWatermark(putData) /\ putWm
                    IN  /\ Cardinality(unreadable) + Cardinality(nometa)
                                + Cardinality(unreadableDates) + (IF wmRead THEN 0 ELSE 1)
                                + (IF putData /\ putWm THEN 0 ELSE 1) <= MaxFaults
                        /\ putData => failDate = 1
                        /\ ~putData => (putWm /\ failDate \in {r.obs_date : r \in out})
                        /\ silver' = write_silver_partitions(put)
                        /\ sil_wm' = IF wrote
                                     THEN [last_ingest_ts |-> latest_ingest_ts,
                                           last_obs_date |-> latest_obs_date(out)]
                                     ELSE sil_wm
                        /\ sil_merged' = sil_merged \cup
                              {<<r.obs_date, r.raw_s3_key>> : r \in
                                  {c \in combined_df : c.obs_date \in {q.obs_date : q \in put}}}
                        /\ sil_last' = [RunRecord("lambda", full_refresh,
                                                 IF putData /\ putWm THEN "success" ELSE "error",
                                                 unreadable, nometa, unreadableDates, wmRead)
                                        EXCEPT !.put_ok = putData /\ putWm]
    /\ UNCHANGED notSilver

\* scripts/backfill_silver.py process_series (dry_run = False): every bronze
\* file, no read of the existing silver, watermark from the listed files
BackfillSilver ==
    /\ sil_runs < MaxRuns
    /\ \E unreadable \in SUBSET {f.ts : f \in bronze},
          nometa \in SUBSET {f.ts : f \in bronze} :
        LET now == sil_runs + 1
            run_id == now
            bronze_files == bronze
            all_records == ReadAll(bronze_files, unreadable, nometa, run_id)
        IN  /\ Cardinality(unreadable) + Cardinality(nometa) <= MaxFaults
            /\ nometa \cap unreadable = {}
            /\ sil_runs' = now
            /\ sil_prev' = [sil_last EXCEPT !.before = {}]
            /\ UNCHANGED bronze
            /\ IF bronze_files = {} THEN
                    /\ sil_last' = RunRecord("backfill", TRUE, "no_files",
                                             unreadable, nometa, {}, TRUE)
                    /\ UNCHANGED <<silver, sil_wm, sil_merged>>
               ELSE IF all_records = {} THEN
                    /\ sil_last' = RunRecord("backfill", TRUE, "no_records",
                                             unreadable, nometa, {}, TRUE)
                    /\ UNCHANGED <<silver, sil_wm, sil_merged>>
               ELSE \E deduped \in DropDuplicates(all_records) :
                    LET out == StampProcessed(deduped, now)
                    IN  /\ silver' = write_silver_partitions(out)
                        /\ sil_wm' = [last_ingest_ts |-> Max({f.ts : f \in bronze_files}),
                                      last_obs_date |-> Max({r.obs_date : r \in out})]
                        /\ sil_merged' = sil_merged \cup
                              {<<r.obs_date, r.raw_s3_key>> : r \in all_records}
                        /\ sil_last' = RunRecord("backfill", TRUE, "success",
                                                 unreadable, nometa, {}, TRUE)
    /\ UNCHANGED notSilver

SilverNext ==
    \/ BronzeIngest
    \/ ProcessSeries
    \/ BackfillSilver

(***************************************************************************)
(* DAILY RUN AND PROMOTION  (src/pipeline/run_daily_h7.py,                 *)
(*                           src/artifacts/write_latest.py)                *)
(*                                                                         *)
(* A directory is a function from file names to contents; content 0 is an  *)
(* absent file and content n > 0 is what the n-th call produced.  Every    *)
(* run has a run directory of its own.                                     *)
(***************************************************************************)
MaxCalls == 2
\* the pairs, in the order of sorted(unique_series)
PairOrder == <<"EUR_CAD", "USD_CAD">>
Pairs == {PairOrder[k] : k \in 1..Len(PairOrder)}
PredictionsFile == "decision_predictions_h7.parquet"
ManifestFile == "manifest.json"
JsonFile(pair) == "latest_" \o pair \o "_h7.json"
CsvFile(pair) == "latest_" \o pair \o "_h7.csv"
FileNames == {PredictionsFile, ManifestFile}
                \cup {JsonFile(p) : p \in Pairs} \cup {CsvFile(p) : p \in Pairs}
Absent == 0
EmptyDir == [n \in FileNames |-> Absent]

\* files: list of (src_path, dst_filename); the source is known by its content
Source(content, dst_filename) == [content |-> content, dst |-> dst_filename]

\* src.exists() for every source of the batch
AllSourcesExist(files) == \A k \in 1..Len(files) : files[k].content # Absent

\* where promote_to_latest goes after one shutil.copy2: an exception takes
\* it to the except branch, which re-raises; the replace loop starts only
\* after the last copy
m_AfterCopy(ok, i, n) == IF i = n THEN "replace" ELSE "copy"
AfterCopy(ok, i, n) ==
    IF ~ok THEN "raised" ELSE IF i = n THEN "replace" ELSE "copy"

PromIdle ==
    /\ prom_pc = "idle"
    /\ prom_files = <<>>
    /\ prom_i = 0
    /\ prom_temp = EmptyDir
    /\ prom_before = EmptyDir
    /\ prom_fault = "none"

\* entry of promote_to_latest(latest_dir, files)
EnterPromote(files) ==
    /\ prom_pc' = "validate"
    /\ prom_files' = files
    /\ prom_i' = 0
    /\ prom_temp' = EmptyDir
    /\ prom_before' = latest
    /\ prom_fault' = "none"

\* mkdir latest_dir, the existence check of every source, mkdir of the
\* staging directory
PromoteValidate ==
    /\ prom_pc = "validate"
    /\ IF ~AllSourcesExist(prom_files) THEN
            /\ prom_pc' = "raised"
            /\ prom_fault' = "missing_source"
            /\ UNCHANGED prom_i
       ELSE IF prom_files = <<>> THEN
            /\ prom_pc' = "cleanup"
            /\ UNCHANGED <<prom_i, prom_fault>>
       ELSE /\ prom_pc' = "copy"
            /\ prom_i' = 1
            /\ UNCHANGED prom_fault
    /\ UNCHANGED <<prom_files, prom_temp, prom_before>>
    /\ UNCHANGED <<runVars, notRun>>

\* one shutil.copy2 into the staging directory: it succeeds, or it raises
\* and the except branch removes the staging directory (or fails to, which
\* is ignored) and re-raises
PromoteCopy ==
    /\ prom_pc = "copy"
    /\ \E ok \in BOOLEAN, removed \in BOOLEAN :
        LET f == prom_files[prom_i]
            next == AfterCopy(ok, prom_i, Len(prom_files))
        IN  /\ ok => removed
            /\ prom_pc' = next
            /\ prom_fault' = IF ok THEN prom_fault ELSE "copy"
            /\ prom_i' = IF next = "copy" THEN prom_i + 1
                         ELSE IF next = "replace" THEN 1 ELSE prom_i
            /\ prom_temp' = IF ok THEN [prom_temp EXCEPT ![f.dst] = f.content]
                            ELSE IF removed /\ next = "raised" THEN EmptyDir
                            ELSE prom_temp
    /\ UNCHANGED <<prom_files, prom_before>>
    /\ UNCHANGED <<runVars, notRun>>

\* one os.replace from the staging directory to latest_dir: it succeeds, or
\* it raises (always, when the staged file is not there) and the except
\* branch removes the staging directory and re-raises
PromoteReplace ==
    /\ prom_pc = "replace"
    /\ \E ok \in BOOLEAN, removed \in BOOLEAN :
        LET f == prom_files[prom_i]
            last == prom_i = Len(prom_files)
        IN  /\ ok => (removed /\ prom_temp[f.dst] # Absent)
            /\ IF ok THEN
                    /\ latest' = [latest EXCEPT ![f.dst] = prom_temp[f.dst]]
                    /\ prom_temp' = [prom_temp EXCEPT ![f.dst] = Absent]
                    /\ prom_pc' = IF last THEN "cleanup" ELSE "replace"
                    /\ prom_i' = IF last THEN prom_i ELSE prom_i + 1
                    /\ UNCHANGED prom_fault
               ELSE /\ prom_pc' = "raised"
                    /\ prom_fault' = "replace"
                    /\ prom_temp' = IF removed THEN EmptyDir ELSE prom_temp
                    /\ UNCHANGED <<latest, prom_i>>
    /\ UNCHANGED <<prom_files, prom_before>>
    /\ UNCHANGED <<run_pc, run_count, run_dir, run_log, run_fail, latest_before>>
    /\ UNCHANGED notRun

\* temp_dir.rmdir(): it succeeds, or it raises and the except branch
\* re-raises
PromoteCleanup ==
    /\ prom_pc = "cleanup"
    /\ \E ok \in BOOLEAN :
        /\ ok => prom_temp = EmptyDir
        /\ prom_pc' = IF ok THEN "returned" ELSE "raised"
        /\ prom_fault' = IF ok THEN prom_fault ELSE "cleanup"
        /\ prom_temp' = prom_temp
    /\ UNCHANGED <<prom_files, prom_i, prom_before>>
    /\ UNCHANGED <<runVars, notRun>>

\* a call of promote_to_latest from outside main (the tests, a script):
\* any batch of up to two files, each source present or missing
DirectBatches(content) ==
    LET one == {Source(c, n) : c \in {Absent, content},
                               n \in {PredictionsFile, ManifestFile}}
    IN  {<<>>} \cup {<<f>> : f \in one}
            \cup {b \in one \X one : b[1].dst # b[2].dst}
CallPromote ==
    /\ run_pc \in {"idle", "returned", "raised"}
    /\ prom_pc \in {"idle", "returned", "raised"}
    /\ run_count < MaxCalls
    /\ run_count' = run_count + 1
    /\ \E files \in DirectBatches(run_count + 1) : EnterPromote(files)
    /\ run_pc' = "idle"
    /\ run_dir' = EmptyDir
    /\ run_log' = <<>>
    /\ run_fail' = "none"
    /\ UNCHANGED <<latest, latest_before>>
    /\ UNCHANGED notRun

\* where main goes after a stage before promotion: an exception of the
\* stage propagates out of main
m_StageNext(ok, next) == next
StageNext(ok, next) == IF ok THEN next ELSE "raised"

\* where main goes after an upload step: publish_run_outputs and
\* publish_latest_outputs raise on failure and main does not catch
m_PublishNext(ok, next) == next
PublishNext(ok, next) == IF ok THEN next ELSE "raised"

RunIdle ==
    /\ run_pc = "idle"
    /\ run_count = 0
    /\ run_dir = EmptyDir
    /\ run_log = <<>>
    /\ run_fail = "none"
    /\ latest = EmptyDir
    /\ latest_before = EmptyDir

RunInit == RunIdle /\ PromIdle

\* main up to the creation of the run directory: load_pipeline_config and
\* validate_run_date may raise; --dry-run returns with nothing written
MainEnter ==
    /\ run_pc \in {"idle", "returned", "raised"}
    /\ prom_pc \in {"idle", "returned", "raised"}
    /\ run_count < MaxCalls
    /\ run_count' = run_count + 1
    /\ run_dir' = EmptyDir
    /\ run_log' = <<>>
    /\ latest_before' = latest
    /\ \E config_ok \in BOOLEAN, dry_run \in BOOLEAN :
        /\ ~config_ok => ~dry_run
        /\ run_pc' = IF ~config_ok THEN "raised"
                     ELSE IF dry_run THEN "returned" ELSE "sync"
        /\ run_fail' = IF config_ok THEN "none" ELSE "config"
    /\ UNCHANGED <<latest, promVars, notRun>>

\* if args.sync: sync_gold_from_config(cfg=config)
MainSync ==
    /\ run_pc = "sync"
    /\ \E sync \in BOOLEAN, ok \in BOOLEAN :
        /\ ~sync => ok
        /\ run_pc' = StageNext(ok, "inference")
        /\ run_fail' = IF ok THEN run_fail ELSE "sync"
    /\ UNCHANGED <<run_count, run_dir, run_log, latest, latest_before>>
    /\ UNCHANGED <<promVars, notRun>>

\* the inference subprocess: exit code 0 with the predictions written to the
\* run directory, or a non-zero exit code and RuntimeError
MainInference ==
    /\ run_pc = "inference"
    /\ \E ok \in BOOLEAN :
        /\ run_pc' = StageNext(ok, "manifest")
        /\ run_fail' = IF ok THEN run_fail ELSE "inference"
        /\ run_dir' = IF ok THEN [run_dir EXCEPT ![PredictionsFile] = run_count]
                      ELSE run_dir
    /\ UNCHANGED <<run_count, run_log, latest, latest_before>>
    /\ UNCHANGED <<promVars, notRun>>

\* build_run_manifest and the write of manifest.json to the run directory
MainManifest ==
    /\ run_pc = "manifest"
    /\ \E ok \in BOOLEAN :
        /\ run_pc' = StageNext(ok, "build_latest")
        /\ run_fail' = IF ok THEN run_fail ELSE "manifest"
        /\ run_dir' = IF ok THEN [run_dir EXCEPT ![ManifestFile] = run_count]
                      ELSE run_dir
    /\ UNCHANGED <<run_count, run_log, latest, latest_before>>
    /\ UNCHANGED <<promVars, notRun>>

\* build_all_latest into run_dir/.latest_temp: a JSON and a CSV file for
\* every pair of the predictions; when it raises, the pairs written so far
\* stay in the run directory
MainBuildLatest ==
    /\ run_pc = "build_latest"
    /\ \E pairs \in SUBSET Pairs, ok \in BOOLEAN :
        /\ run_pc' = StageNext(ok, "promote")
        /\ run_fail' = IF ok THEN run_fail ELSE "build_latest"
        /\ run_dir' = [n \in FileNames |->
                        IF \E p \in pairs : n \in {JsonFile(p), CsvFile(p)}
                        THEN run_count ELSE run_dir[n]]
    /\ UNCHANGED <<run_count, run_log, latest, latest_before>>
    /\ UNCHANGED <<promVars, notRun>>

\* files_to_promote: the predictions, the manifest, then the JSON and the
\* CSV file of every pair that build_all_latest returned
RECURSIVE LatestFiles(_, _)
LatestFiles(dir, k) ==
    IF k > Len(PairOrder) THEN <<>>
    ELSE (IF dir[JsonFile(PairOrder[k])] # Absent
          THEN <<Source(dir[JsonFile(PairOrder[k])], JsonFile(PairOrder[k])),
                 Source(dir[CsvFile(PairOrder[k])], CsvFile(PairOrder[k]))>>
          ELSE <<>>) \o LatestFiles(dir, k + 1)
FilesToPromote(dir) ==
    <<Source(dir[PredictionsFile], PredictionsFile),
      Source(dir[ManifestFile], ManifestFile)>> \o LatestFiles(dir, 1)

\* the call promote_to_latest(latest_dir, files_to_promote)
MainCallPromote ==
    /\ run_pc = "promote"
    /\ run_pc' = "promoting"
    /\ EnterPromote(FilesToPromote(run_dir))
    /\ UNCHANGED <<run_count, run_dir, run_log, run_fail, latest, latest_before>>
    /\ UNCHANGED notRun

\* promote_to_latest has returned or raised; after a return .latest_temp is
\* removed from the run directory
MainPromoted ==
    /\ run_pc = "promoting"
    /\ prom_pc \in {"returned", "raised"}
    /\ IF prom_pc = "raised" THEN
            /\ run_pc' = "raised"
            /\ run_fail' = "promote"
            /\ UNCHANGED <<run_dir, run_log>>
       ELSE \E ok \in BOOLEAN :
            /\ run_pc' = IF ok THEN "publish_run" ELSE "raised"
            /\ run_fail' = IF ok THEN run_fail ELSE "cleanup"
            /\ run_log' = Append(run_log, "promoted")
            /\ run_dir' = IF ok
                          THEN [n \in FileNames |->
                                  IF n \in {PredictionsFile, ManifestFile}
                                  THEN run_dir[n] ELSE Absent]
                          ELSE run_dir
    /\ UNCHANGED <<run_count, latest, latest_before>>
    /\ UNCHANGED <<promVars, notRun>>

\* if args.publish: the check of config.publish, then publish_run_outputs
MainPublishRun ==
    /\ run_pc = "publish_run"
    /\ \E publish \in BOOLEAN, configured \in BOOLEAN, ok \in BOOLEAN :
        /\ ~publish => (configured /\ ok)
        /\ ~configured => ok
        /\ IF ~publish THEN
                /\ run_pc' = "email"
                /\ UNCHANGED <<run_log, run_fail>>
           ELSE IF ~configured THEN
                /\ run_pc' = "raised"
                /\ run_fail' = "publish_config"
                /\ UNCHANGED run_log
           ELSE /\ run_pc' = PublishNext(ok, "publish_latest")
                /\ run_fail' = IF ok THEN run_fail ELSE "publish_run"
                /\ run_log' = Append(run_log,
                                IF ok THEN "publish_run" ELSE "publish_run_failed")
    /\ UNCHANGED <<run_count, run_dir, latest, latest_before>>
    /\ UNCHANGED <<promVars, notRun>>

\* publish_latest_outputs
MainPublishLatest ==
    /\ run_pc = "publish_latest"
    /\ \E ok \in BOOLEAN :
        /\ run_pc' = PublishNext(ok, "email")
        /\ run_fail' = IF ok THEN run_fail ELSE "publish_latest"
        /\ run_log' = Append(run_log,
                        IF ok THEN "publish_latest" ELSE "publish_latest_failed")
    /\ UNCHANGED <<run_count, run_dir, latest, latest_before>>
    /\ UNCHANGED <<promVars, notRun>>

\* if args.email: the check of config.email, then send_email_ses; then the
\* success line and the return of main
MainEmail ==
    /\ run_pc = "email"
    /\ \E email \in BOOLEAN, configured \in BOOLEAN, ok \in BOOLEAN :
        /\ ~email => (configured /\ ok)
        /\ ~configured => ok
        /\ IF ~email THEN
                /\ run_pc' = "returned"
                /\ UNCHANGED <<run_log, run_fail>>
           ELSE IF ~configured THEN
                /\ run_pc' = "raised"
                /\ run_fail' = "email_config"
                /\ UNCHANGED run_log
           ELSE /\ run_pc' = IF ok THEN "returned" ELSE "raised"
                /\ run_fail' = IF ok THEN run_fail ELSE "email"
                /\ run_log' = Append(run_log, IF ok THEN "email" ELSE "email_failed")
    /\ UNCHANGED <<run_count, run_dir, latest, latest_before>>
    /\ UNCHANGED <<promVars, notRun>>

RunNext ==
    \/ CallPromote
    \/ PromoteValidate
    \/ PromoteCopy
    \/ PromoteReplace
    \/ PromoteCleanup
    \/ MainEnter
    \/ MainSync
    \/ MainInference
    \/ MainManifest
    \/ MainBuildLatest
    \/ MainCallPromote
    \/ MainPromoted
    \/ MainPublishRun
    \/ MainPublishLatest
    \/ MainEmail

(***************************************************************************)
(* FEATURE BUILDER  (src/features/h7.py)                                   *)
(*                                                                         *)
(* The frame is taken after sort_values("obs_date"): rows 0 .. n-1.  A     *)
(* number is known by its class only: "nan", "zero", "inf", or an ordinary *)
(* finite non-zero number "num"; for ret_1d the class "flat" is the exact  *)
(* 0.0 of value == prev_value.  Ordinary ret_1d values of different rows   *)
(* are taken to differ, so a rolling std is 0 only over a window of flat   *)
(* rows.  A frame is a base row repeated n times, but for the rows listed  *)
(* in bad.  What is computed per row and column is whether it is NaN.      *)
(***************************************************************************)
H == 7
MedWindow == 252
NUMERIC_FEATURES_H7 ==
    <<"value", "ret_1d", "ret_3d", "ret_5d", "ret_10d", "ret_21d",
      "vol_5d", "vol_10d", "vol_21d", "vol_63d",
      "mom_5d", "mom_10d", "mom_21d",
      "zret_1d_21d", "zret_1d_63d", "vol_ratio_21_63", "vol_21_med_252",
      "is_high_vol", "day_of_week", "month", "is_month_end">>
TargetCols == {"direction_7d", "fwd_return_7d"}
RequiredCols == {"obs_date", "value", "prev_value"}
SeqToSet(q) == {q[k] : k \in 1..Len(q)}

GoldRow(value, prev, dr) == [value |-> value, prev |-> prev, dr |-> dr]
\* the row at position i of the sorted frame
RowAt(g, i) ==
    IF \E b \in g.bad : b.pos = i
    THEN (CHOOSE b \in g.bad : b.pos = i).row
    ELSE g.base
ValueAt(g, i) == RowAt(g, i).value

\* ret_1d: the daily_return column if there is one, else value/prev_value - 1
Ret1Class(r, has_daily_return) ==
    IF has_daily_return THEN r.dr
    ELSE IF r.value = "nan" \/ r.prev = "nan" THEN "nan"
    ELSE IF r.prev = "zero" \/ (r.prev = "same" /\ r.value = "zero")
         THEN (IF r.value = "zero" THEN "nan" ELSE "inf")
    ELSE IF r.prev = "same" THEN "flat"
    ELSE "num"
Ret1At(g, i) == Ret1Class(RowAt(g, i), "daily_return" \in g.cols)

\* a quotient a/b of two values is NaN
QuotientNaN(a, b) == a = "nan" \/ b = "nan" \/ (a = "zero" /\ b = "zero")

m_PctReturnNaN(g, i, n) ==
    QuotientNaN(ValueAt(g, i), ValueAt(g, i + n))

\* _pct_return(value, n) is NaN at row i
PctReturnNaN(g, i, n) ==
    i < n \/ QuotientNaN(ValueAt(g, i), ValueAt(g, i - n))

\* x.rolling(w, min_periods=w) of ret_1d has no result at row i: the window
\* is short, or holds a NaN or an infinity (which rolling takes as missing)
RollingNaN(g, i, w) ==
    \/ i < w - 1
    \/ Ret1Class(g.base, "daily_return" \in g.cols) \notin {"num", "flat"}
    \/ \E b \in g.bad : /\ b.pos \in (i - w + 1)..i
                        /\ Ret1At(g, b.pos) \notin {"num", "flat"}

\* _rolling_std(ret_1d, w) is 0.0 at row i: every ret_1d of the window is
\* the same number
RollingStdZero(g, i, w) ==
    /\ ~RollingNaN(g, i, w)
    /\ Ret1Class(g.base, "daily_return" \in g.cols) = "flat"
    /\ \A b \in g.bad : b.pos \in (i - w + 1)..i => Ret1At(g, b.pos) = "flat"

\* ret_1d / vol_w is NaN: a NaN operand, or 0/0 (a zero std means that the
\* ret_1d of the row is the common value of the window; inf/x is inf)
ZretNaN(g, i, w) ==
    \/ Ret1At(g, i) = "nan"
    \/ RollingNaN(g, i, w)
    \/ (RollingStdZero(g, i, w) /\ Ret1At(g, i) = "flat")

m_MedianNaN(g, i) == i < MedWindow - 1

\* vol_21d.rolling(252, min_periods=252).median() is NaN
MedianNaN(g, i) ==
    \/ i < MedWindow - 1
    \/ \E j \in (i - MedWindow + 1)..i : RollingNaN(g, j, 21)

\* fwd_return_7d = value.shift(-H)/value - 1, computed before the tail is cut
FwdReturnNaN(g, i) ==
    i + H > g.n - 1 \/ QuotientNaN(ValueAt(g, i + H), ValueAt(g, i))

\* column c is NaN at row i; the flags and the calendar columns are
\* integers and direction_7d is (fwd_return_7d > 0).astype(int)
IsNaN(g, i, c) ==
    CASE c = "value" -> ValueAt(g, i) = "nan"
      [] c = "ret_1d" -> Ret1At(g, i) = "nan"
      [] c = "ret_3d" -> PctReturnNaN(g, i, 3)
      [] c = "ret_5d" -> PctReturnNaN(g, i, 5)
      [] c = "ret_10d" -> PctReturnNaN(g, i, 10)
      [] c = "ret_21d" -> PctReturnNaN(g, i, 21)
      [] c \in {"vol_5d", "mom_5d"} -> RollingNaN(g, i, 5)
      [] c \in {"vol_10d", "mom_10d"} -> RollingNaN(g, i, 10)
      [] c \in {"vol_21d", "mom_21d"} -> RollingNaN(g, i, 21)
      [] c = "vol_63d" -> RollingNaN(g, i, 63)
      [] c = "zret_1d_21d" -> ZretNaN(g, i, 21)
      [] c = "zret_1d_63d" -> ZretNaN(g, i, 63)
      [] c = "vol_ratio_21_63" ->
            RollingNaN(g, i, 21) \/ RollingNaN(g, i, 63) \/ RollingStdZero(g, i, 63)
      [] c = "vol_21_med_252" -> MedianNaN(g, i)
      [] c = "fwd_return_7d" -> FwdReturnNaN(g, i)
      [] OTHER -> FALSE

\* feat.dropna(subset=feature_cols + target_cols): the columns looked at
m_DropnaSubset(feature_cols, target_cols) == feature_cols
DropnaSubset(feature_cols, target_cols) == feature_cols \cup target_cols

\* build_features_h7_from_gold(gold_df): ValueError, or the rows kept, each
\* with its position in the sorted input and the columns in which it is NaN
build_features_h7_from_gold(g) ==
    IF ~(RequiredCols \subseteq g.cols) THEN Raise("ValueError")
    ELSE IF "series_id" \in g.cols /\ g.series_ids # 1 THEN Raise("ValueError")
    ELSE
        LET rows == 0..(g.n - H - 1)
            feat_columns == SeqToSet(NUMERIC_FEATURES_H7) \cup TargetCols
                                \cup (g.cols \cap {"series_id"})
            feature_cols == feat_columns \ TargetCols
            subset == DropnaSubset(feature_cols, TargetCols)
            NaNCols(i) == {c \in feat_columns : IsNaN(g, i, c)}
        IN  Return({[idx |-> i, nan |-> NaNCols(i)] :
                        i \in {j \in rows : NaNCols(j) \cap subset = {}}})

\* the first row with a full 252-window of vol_21d, and the frames tried
FirstFull == (21 - 1) + (MedWindow - 1)
ExtraRows == 4
MaxRows == FirstFull + H + ExtraRows
MaxBad == 1
MaxBack == 8
RowCounts == {0, H, FirstFull + H, FirstFull + H + 1, MaxRows}
Generic == GoldRow("num", "num", "num")
Flat == GoldRow("num", "same", "flat")
RowKinds(has_daily_return) ==
    IF has_daily_return
    THEN {GoldRow(v, "num", d) : v \in {"num", "zero", "nan"},
                                 d \in {"num", "flat", "nan", "inf"}}
    ELSE {GoldRow(v, p, "num") : v \in {"num", "zero", "nan"},
                                 p \in {"num", "same", "zero", "nan"}}
\* the sets of at most k exceptional rows among the last MaxBack rows
RECURSIVE BadSets(_, _)
BadSets(cells, k) ==
    IF k = 0 THEN {{}}
    ELSE LET less == BadSets(cells, k - 1)
         IN  less \cup {s \cup {b} : s \in less, b \in cells}
BadRows(n, has_daily_return) ==
    LET cells == {[pos |-> p, row |-> r] :
                    p \in {q \in (n - MaxBack)..(n - 1) : q >= 0},
                    r \in RowKinds(has_daily_return)}
    IN  {bad \in BadSets(cells, MaxBad) :
            \A b1 \in bad : \A b2 \in bad : b1.pos = b2.pos => b1 = b2}
GoldFrame(cols, series_ids, n, base, bad) ==
    [cols |-> cols, series_ids |-> series_ids, n |-> n, base |-> base, bad |-> bad]
NoGold == GoldFrame({}, 0, 0, Generic, {})
\* frames that break the column contract, frames without a series_id
\* column, and frames with one series_id and up to MaxBad exceptional rows
GoldFrames ==
    {GoldFrame(RequiredCols \ {c}, 0, H, Generic, {}) : c \in RequiredCols}
    \cup {GoldFrame(RequiredCols \cup {"series_id"}, k, H, Generic, {}) : k \in {0, 2}}
    \cup {GoldFrame(RequiredCols, 0, n, base, {}) :
            n \in RowCounts, base \in {Generic, Flat}}
    \cup UNION {UNION {{GoldFrame(RequiredCols \cup {"series_id"} \cup opt, 1, n, base, bad) :
                            base \in {Generic, Flat},
                            bad \in BadRows(n, "daily_return" \in opt)} :
                        n \in RowCounts} :
                  opt \in SUBSET {"daily_return"}}

FeatInit ==
    /\ feat_gold \in GoldFrames
    /\ feat_out = NotCalled
    /\ feat_pc = "input"

FeatIdle ==
    /\ feat_gold = NoGold
    /\ feat_out = NotCalled
    /\ feat_pc = "idle"

CallBuildFeatures ==
    /\ feat_pc = "input"
    /\ feat_out' = build_features_h7_from_gold(feat_gold)
    /\ feat_pc' = "done"
    /\ UNCHANGED feat_gold
    /\ UNCHANGED notFeat

FeatNext == CallBuildFeatures

(***************************************************************************)
(* INFERENCE RUNNER  (src/models/run_inference_h7.py)                      *)
(*                                                                         *)
(* A call is given the gold files found under gold_root, each loadable or  *)
(* not and processed with or without an error, and the shape of the frame  *)
(* that the concatenation yields.  The code builds every pred_df with the  *)
(* four required columns, in order, over a RangeIndex; the other shapes    *)
(* are what the contract checks would meet if that construction changed.   *)
(***************************************************************************)
MaxObsDate == 2
REQUIRED_COLS == <<"obs_date", "series_id", "p_up_logreg", "action_logreg">>
\* the series, in the order of sorted(parquet_files)
SeriesOrder == <<"FXEURCAD", "FXUSDCAD">>
SeriesIds == SeqToSet(SeriesOrder)
SeriesRank(id) == CHOOSE k \in 1..Len(SeriesOrder) : SeriesOrder[k] = id

GoldFile(id, status, dates) == [series_id |-> id, status |-> status, dates |-> dates]
Frame(columns, dt_index, series_id_nan) ==
    [columns |-> columns, dt_index |-> dt_index, series_id_nan |-> series_id_nan]
FrameShapes ==
    {Frame(c, x, n) :
        c \in {REQUIRED_COLS,
               <<"series_id", "obs_date", "action_logreg", "p_up_logreg">>,
               <<"obs_date", "series_id", "p_up_logreg">>,
               <<"series_id", "p_up_logreg", "action_logreg">>,
               REQUIRED_COLS \o <<"confidence">>,
               <<"confidence">> \o REQUIRED_COLS,
               <<"obs_date", "series_id", "p_up_logreg", "decision">>},
        x \in BOOLEAN, n \in BOOLEAN}

\* the columns of df_all at the contract check: obs_date is added from a
\* DatetimeIndex when it is not a column
ColumnsAtCheck(frame) ==
    IF "obs_date" \in SeqToSet(frame.columns) THEN SeqToSet(frame.columns)
    ELSE IF frame.dt_index THEN SeqToSet(frame.columns) \cup {"obs_date"}
    ELSE SeqToSet(frame.columns)
missing_cols(columns) == SeqToSet(REQUIRED_COLS) \ columns
m_extra_cols(columns) == {}
extra_cols(columns) == columns \ SeqToSet(REQUIRED_COLS)

\* df_all[REQUIRED_COLS]: the named columns of the frame, in the order named
SelectColumns(columns, names) == SelectSeq(names, LAMBDA c : c \in columns)

\* rows in (obs_date, series_id) order
RowBefore(a, b) ==
    \/ a.obs_date < b.obs_date
    \/ a.obs_date = b.obs_date /\ SeriesRank(a.series_id) < SeriesRank(b.series_id)
\* the results that sort_values("obs_date") can give: rows with equal
\* obs_date come out in any order (the default sort is not stable)
sort_values(f) ==
    LET n == Len(f)
        perms == {p \in [1..n -> 1..n] :
                    /\ \A i, j \in 1..n : i # j => p[i] # p[j]
                    /\ \A i \in 1..(n - 1) :
                          f[p[i]].obs_date <= f[p[i + 1]].obs_date}
    IN {[i \in 1..n |-> f[p[i]]] : p \in perms}

\* the rows of one pred_df: the obs_dates of the feature rows, ascending
PredRows(f) ==
    SelectSeq([d \in 1..MaxObsDate |-> [obs_date |-> d, series_id |-> f.series_id]],
              LAMBDA r : r.obs_date \in f.dates)

\* pd.concat(all_predictions), the series in the order of
\* sorted(parquet_files), from the k-th on
RECURSIVE ConcatPredictions(_, _)
ConcatPredictions(series_data, k) ==
    IF k > Len(SeriesOrder) THEN <<>>
    ELSE LET here == {f \in series_data : f.series_id = SeriesOrder[k]}
         IN  (IF here = {} THEN <<>> ELSE PredRows(CHOOSE f \in here : TRUE))
                \o ConcatPredictions(series_data, k + 1)

\* a stable sort on (obs_date, series_id): rows of equal key keep their order
RECURSIVE StableSort(_)
StableSort(rows) ==
    IF rows = <<>> THEN <<>>
    ELSE LET rest == StableSort(Tail(rows))
             k == Cardinality({j \in 1..Len(rest) : RowBefore(rest[j], Head(rows))})
         IN  SubSeq(rest, 1, k) \o <<Head(rows)>> \o SubSeq(rest, k + 1, Len(rest))

m_final_sort(df_output) == df_output

\* df_output.sort_values(["obs_date", "series_id"], kind="mergesort")
final_sort(df_output) == StableSort(df_output)

NoFile == [columns |-> <<>>, rows |-> <<>>, written |-> FALSE]
Ran(err, file) == [err |-> err, file |-> file]

\* run_inference(gold_root, model_dir, out_path, dry_run): the outcomes it
\* can have, each the exception raised ("none" when it returns) and the
\* file written
run_inference(in) ==
    LET series_data == {f \in in.files : f.status # "unloadable"}
        df_all == ConcatPredictions(series_data, 1)
        columns == ColumnsAtCheck(in.frame)
    IN  IF ~in.artifacts_ok THEN {Ran("FileNotFoundError", NoFile)}
        ELSE IF in.files = {} THEN {Ran("FileNotFoundError", NoFile)}
        ELSE IF series_data = {} THEN {Ran("ValueError", NoFile)}
        ELSE IF \E f \in series_data : f.status = "fails" THEN {Ran("Exception", NoFile)}
        ELSE IF missing_cols(columns) # {} THEN {Ran("ValueError", NoFile)}
        ELSE IF extra_cols(columns) # {} THEN {Ran("ValueError", NoFile)}
        ELSE IF in.frame.series_id_nan THEN {Ran("ValueError", NoFile)}
        ELSE IF in.dry_run THEN {Ran("none", NoFile)}
        ELSE {Ran("none", [columns |-> SelectColumns(columns, REQUIRED_COLS),
                           rows |-> final_sort(by_date), written |-> TRUE]) :
                by_date \in sort_values(df_all)}

GoldFileSets ==
    {fs \in SUBSET {GoldFile(id, st, ds) :
                        id \in SeriesIds,
                        st \in {"ok", "unloadable", "fails"},
                        ds \in {{}, {1}, 1..MaxObsDate}} :
        /\ \A f \in fs : \A g \in fs : f.series_id = g.series_id => f = g
        /\ \A f \in fs : f.status # "ok" => f.dates = {}}
InferInputs ==
    [artifacts_ok : BOOLEAN, files : GoldFileSets, frame : FrameShapes,
     dry_run : BOOLEAN]
NoInput == [artifacts_ok |-> TRUE, files |-> {},
            frame |-> Frame(REQUIRED_COLS, FALSE, FALSE), dry_run |-> TRUE]

InferInit ==
    /\ inf_in \in InferInputs
    /\ inf_out = "not_called"
    /\ inf_file = NoFile
    /\ inf_pc = "input"

InferIdle ==
    /\ inf_in = NoInput
    /\ inf_out = "not_called"
    /\ inf_file = NoFile
    /\ inf_pc = "idle"

CallRunInference ==
    /\ inf_pc = "input"
    /\ \E ran \in run_inference(inf_in) :
        /\ inf_out' = ran.err
        /\ inf_file' = ran.file
    /\ inf_pc' = "done"
    /\ UNCHANGED inf_in
    /\ UNCHANGED notInfer

InferNext == CallRunInference

(***************************************************************************)
(* SILVER -> GOLD  (src/lambdas/silver_to_gold/handler.py)                 *)
(*                                                                         *)
(* One series is modelled.  Observation dates are numbered in calendar     *)
(* order; the code compares them as zero-padded ISO strings and as         *)
(* timestamps, and both orders are the calendar order.  A silver partition *)
(* ds holds the one row of obs_date = ds that the silver writer put there. *)
(* Of the engineered features only prev_value (value.shift(1)) is kept: it *)
(* is the one that shows which row preceded a row when features were       *)
(* computed.  The n-th run stamps its rows with run_id n.  An S3 read that *)
(* the code catches, and an S3 write that raises, are chosen freely.       *)
(***************************************************************************)
MaxGoldDate == 3
MaxGoldValue == 1
MaxGoldRuns == 3

GoldDates == 1..MaxGoldDate
NoDate == 0
ContextDays == 30

SilverRow(d) == [obs_date |-> d, value |-> gold_silver[d]]
NoGoldFile == <<>>

\* get_watermark: the stored last_obs_date, or {} when the read fails
gold_get_watermark(readable) == IF readable THEN gold_wm ELSE NoDate

list_silver_partitions(after_date) ==
    {d \in GoldDates : /\ gold_silver[d] # NoValue
                       /\ (after_date = NoDate \/ d > after_date)}

RECURSIVE ConcatPartitions(_, _)
ConcatPartitions(dates, readable) ==
    IF dates = {} THEN <<>>
    ELSE LET d == CHOOSE x \in dates : \A y \in dates : x <= y
             rest == ConcatPartitions(dates \ {d}, readable)
         IN IF d \in readable THEN <<SilverRow(d)>> \o rest ELSE rest

\* read_silver_data over sorted(dates); a partition that cannot be read is
\* skipped
read_silver_data(dates, readable) ==
    sort_values(ConcatPartitions(dates, readable))

read_existing_gold(readable) == IF readable THEN gold_file ELSE NoGoldFile

RECURSIVE KeepLast(_)
KeepLast(f) ==
    IF f = <<>> THEN <<>>
    ELSE LET last == f[Len(f)]
             front == SubSeq(f, 1, Len(f) - 1)
         IN KeepLast(SelectSeq(front, LAMBDA r : r.obs_date # last.obs_date))
                \o <<last>>

m_drop_duplicates(f) == f

\* drop_duplicates(subset=["series_id", "obs_date"], keep="last")
drop_duplicates(f) == KeepLast(f)

add_return_features(f) ==
    [i \in 1..Len(f) |->
        [obs_date |-> f[i].obs_date, value |-> f[i].value,
         prev_value |-> IF i = 1 THEN NoValue ELSE f[i - 1].value]]

compute_features(df) == {add_return_features(s) : s \in sort_values(df)}

m_FilterNew(featured_df, last_gold_date) == featured_df

\* step 7 of process_series_incremental
FilterNew(featured_df, last_gold_date) ==
    IF last_gold_date # NoDate
    THEN SelectSeq(featured_df, LAMBDA r : r.obs_date > last_gold_date)
    ELSE featured_df

AddMetadata(featured_df, run_id) ==
    [i \in 1..Len(featured_df) |->
        [obs_date |-> featured_df[i].obs_date, value |-> featured_df[i].value,
         prev_value |-> featured_df[i].prev_value, run_id |-> run_id]]

LastN(dates, n) ==
    {d \in dates : Cardinality({e \in dates : e > d}) < n}

ContextDates(new_silver) ==
    LET min_new_date == CHOOSE d \in {new_silver[i].obs_date : i \in 1..Len(new_silver)} :
                            \A i \in 1..Len(new_silver) : d <= new_silver[i].obs_date
    IN LastN({d \in list_silver_partitions(NoDate) : d < min_new_date}, ContextDays)

\* step 5: the frames that features may be computed on, each with the
\* partitions read as context
CombinedForFeatures(existing_gold, new_silver, ctxReadable) ==
    IF existing_gold # <<>> /\ ContextDates(new_silver) # {}
    THEN {[frame |-> c, context |-> ContextDates(new_silver) \cap ctxReadable] :
            c \in UNION {sort_values(drop_duplicates(context_silver \o new_silver)) :
                    context_silver \in read_silver_data(ContextDates(new_silver), ctxReadable)}}
    ELSE {[frame |-> new_silver, context |-> {}]}

\* step 10: the frames that may be written
FinalFrames(existing_gold, featured_df) ==
    IF existing_gold # <<>>
    THEN sort_values(drop_duplicates(existing_gold \o featured_df))
    ELSE {featured_df}

MaxObsDateOf(f) ==
    CHOOSE d \in {f[i].obs_date : i \in 1..Len(f)} :
        \A i \in 1..Len(f) : f[i].obs_date <= d

SeqRange(f) == {f[i] : i \in 1..Len(f)}

GoldRun(kind, status, last_gold_date, delta, context, unread) ==
    [kind |-> kind, status |-> status, last_gold_date |-> last_gold_date,
     delta |-> delta, context |-> context, unread |-> unread,
     before |-> gold_file]

NoGoldRun ==
    [kind |-> "none", status |-> "none", last_gold_date |-> NoDate,
     delta |-> {}, context |-> {}, unread |-> {}, before |-> NoGoldFile]

GoldInit ==
    /\ gold_silver \in [GoldDates -> 0..MaxGoldValue]
    /\ gold_file = NoGoldFile
    /\ gold_wm = NoDate
    /\ gold_runs = 0
    /\ gold_last = NoGoldRun

GoldIdle ==
    /\ gold_silver = [d \in GoldDates |-> NoValue]
    /\ gold_file = NoGoldFile
    /\ gold_wm = NoDate
    /\ gold_runs = 0
    /\ gold_last = NoGoldRun

\* the silver writer puts the row of one obs_date into its partition
SilverPartitionWritten ==
    /\ \E d \in GoldDates, v \in 1..MaxGoldValue :
        /\ gold_silver[d] # v
        /\ gold_silver' = [gold_silver EXCEPT ![d] = v]
    /\ UNCHANGED <<gold_file, gold_wm, gold_runs, gold_last>>
    /\ UNCHANGED notGold

\* steps 11 and 12, shared by both modes: put the gold file, then the
\* watermark; either put_object may raise
WriteGold(kind, last_gold_date, final_df, delta, context, unread, putGold, putWm) ==
    /\ gold_file' = IF putGold THEN final_df ELSE gold_file
    /\ gold_wm' = IF ReachesWatermark(putGold) /\ putWm
                  THEN MaxObsDateOf(final_df) ELSE gold_wm
    /\ gold_last' = GoldRun(kind, IF putGold /\ putWm THEN "success" ELSE "error",
                            last_gold_date, IF putGold THEN delta ELSE {},
                            context, unread)

ReturnEarly(kind, status, last_gold_date, unread) ==
    /\ gold_last' = GoldRun(kind, status, last_gold_date, {}, {}, unread)
    /\ UNCHANGED <<gold_file, gold_wm>>

process_series_incremental ==
    /\ gold_runs < MaxGoldRuns
    /\ gold_runs' = gold_runs + 1
    /\ \E wmReadable, goldReadable, putGold, putWm \in BOOLEAN :
        LET last_gold_date == gold_get_watermark(wmReadable)
            new_partitions == list_silver_partitions(last_gold_date)
            existing_gold == read_existing_gold(goldReadable)
        IN IF new_partitions = {}
           THEN ReturnEarly("incremental", "no_new_data", last_gold_date, {})
           ELSE \E newReadable \in SUBSET new_partitions :
                \E new_silver \in read_silver_data(new_partitions, newReadable) :
                LET unread == new_partitions \ newReadable
                IN
                IF new_silver = <<>>
                THEN ReturnEarly("incremental", "no_new_records", last_gold_date, unread)
                ELSE \E ctxReadable \in SUBSET ContextDates(new_silver) :
                     \E c \in CombinedForFeatures(existing_gold, new_silver, ctxReadable) :
                     \E computed \in compute_features(c.frame) :
                        LET featured_df == AddMetadata(FilterNew(computed, last_gold_date),
                                                       gold_runs + 1)
                        IN IF featured_df = <<>>
                           THEN ReturnEarly("incremental", "no_new_records_after_filter",
                                            last_gold_date, unread)
                           ELSE \E final_df \in FinalFrames(existing_gold, featured_df) :
                                    WriteGold("incremental", last_gold_date, final_df,
                                              SeqRange(featured_df), c.context, unread,
                                              putGold, putWm)
    /\ UNCHANGED gold_silver
    /\ UNCHANGED notGold

process_series_full_refresh ==
    /\ gold_runs < MaxGoldRuns
    /\ gold_runs' = gold_runs + 1
    /\ \E putGold, putWm \in BOOLEAN :
       \E readable \in SUBSET list_silver_partitions(NoDate) :
       \E silver_df \in read_silver_data(list_silver_partitions(NoDate), readable) :
        IF silver_df = <<>>
        THEN ReturnEarly("full_refresh", "no_data", NoDate,
                         list_silver_partitions(NoDate) \ readable)
        ELSE \E computed \in compute_features(silver_df) :
                LET featured_df == AddMetadata(computed, gold_runs + 1)
                IN WriteGold("full_refresh", NoDate, featured_df, SeqRange(featured_df),
                             {}, list_silver_partitions(NoDate) \ readable,
                             putGold, putWm)
    /\ UNCHANGED gold_silver
    /\ UNCHANGED notGold

GoldNext ==
    \/ SilverPartitionWritten
    \/ process_series_incremental
    \/ process_series_full_refresh

(***************************************************************************)
(* FEATURE SELECTION FOR INFERENCE  (src/models/run_inference_h7.py)       *)
(*                                                                         *)
(* A call is given the columns of the feature table, in their order, and   *)
(* the feature spec; what matters of the table is which columns it has.    *)
(***************************************************************************)
MaxPrepCols == 4
PrepColumns == {"series_id", "ret_1d", "vol_5d", "extra_col"}
NumericNames == {"ret_1d", "vol_5d"}
CategoricalNames == {"series_id"}

\* the lists of distinct names from a set, up to n long
ListsOf(names, n) ==
    {q \in UNION {[1..k -> names] : k \in 0..n} :
        \A i, j \in 1..Len(q) : q[i] = q[j] => i = j}

FeatureSpec(categorical, numeric) ==
    [categorical |-> categorical, numeric |-> numeric]

\* [c for c in required if c not in df_features.columns]
MissingFrom(required, columns) ==
    SelectSeq(required, LAMBDA c : c \notin SeqToSet(columns))

m_missing_num(required_num, columns) == <<>>
missing_num(required_num, columns) == MissingFrom(required_num, columns)
missing_cat(required_cat, columns) == MissingFrom(required_cat, columns)

RaiseMissing(kind, names) ==
    [err |-> "ValueError", kind |-> kind, names |-> names, out |-> <<>>]
ReturnColumns(columns) ==
    [err |-> "none", kind |-> "none", names |-> <<>>, out |-> columns]
PrepNotCalled ==
    [err |-> "not_called", kind |-> "none", names |-> <<>>, out |-> <<>>]

\* prepare_features_for_inference(df_features, feature_spec): the error it
\* raises, or the columns of the frame it returns
prepare_features_for_inference(columns, feature_spec) ==
    LET required_cat == feature_spec.categorical
        required_num == feature_spec.numeric
    IN  IF missing_cat(required_cat, columns) # <<>>
        THEN RaiseMissing("categorical", missing_cat(required_cat, columns))
        ELSE IF missing_num(required_num, columns) # <<>>
        THEN RaiseMissing("numeric", missing_num(required_num, columns))
        ELSE ReturnColumns(required_cat \o required_num)

PrepInputs ==
    [columns : ListsOf(PrepColumns, MaxPrepCols),
     feature_spec : {FeatureSpec(c, n) : c \in ListsOf(CategoricalNames, 1),
                                         n \in ListsOf(NumericNames, 2)}]
NoPrepInput == [columns |-> <<>>, feature_spec |-> FeatureSpec(<<>>, <<>>)]

PrepInit ==
    /\ prep_in \in PrepInputs
    /\ prep_out = PrepNotCalled
    /\ prep_pc = "input"

PrepIdle ==
    /\ prep_in = NoPrepInput
    /\ prep_out = PrepNotCalled
    /\ prep_pc = "idle"

CallPrepareFeatures ==
    /\ prep_pc = "input"
    /\ prep_out' = prepare_features_for_inference(prep_in.columns, prep_in.feature_spec)
    /\ prep_pc' = "done"
    /\ UNCHANGED prep_in
    /\ UNCHANGED notPrep

PrepNext == CallPrepareFeatures

(***************************************************************************)
(* SILVER -> GOLD: THE WINDOWS OF THE FEATURES                             *)
(*                  (src/lambdas/silver_to_gold/handler.py)                *)
(*                                                                         *)
(* The silver partitions of the series are the dates 1..n, one row each.   *)
(* A feature is held as the rows it is computed from: a shift as the date  *)
(* of the row it takes its value from (0 where the shift gives NaN), a     *)
(* rolling statistic as the set of the dates in its window (empty where    *)
(* min_periods is not met).  Two features computed from the same rows are  *)
(* equal; computed from different rows they differ for some values.        *)
(***************************************************************************)
MaxHist == 33
Lags == {1, 2, 3, 5, 21}
Windows == {[window |-> 5, min_periods |-> 1], [window |-> 21, min_periods |-> 1],
            [window |-> 5, min_periods |-> 2], [window |-> 21, min_periods |-> 5]}

\* the frame sorted by obs_date, as the sequence of its dates
SortedDates(S) ==
    [i \in 1..Cardinality(S) |-> CHOOSE d \in S : Cardinality({e \in S : e <= d}) = i]

\* df["value"].shift(k) at row i
ShiftAt(f, i, k) == IF i > k THEN f[i - k] ELSE 0
\* df["value"].rolling(window, min_periods) at row i
RollingAt(f, i, w) ==
    LET rows == {f[j] : j \in {x \in 1..i : x > i - w.window}}
    IN  IF Cardinality(rows) >= w.min_periods THEN rows ELSE {}

\* add_return_features and add_rolling_features over the frame f
backward_features(f) ==
    [i \in 1..Len(f) |->
        [obs_date |-> f[i],
         shift |-> [k \in Lags |-> ShiftAt(f, i, k)],
         rolling |-> [w \in Windows |-> RollingAt(f, i, w)]]]

\* step 5 of process_series_incremental: the last 30 partitions before the
\* first new row
m_context_dates(n, min_new_date) ==
    LastN({d \in 1..n : d < min_new_date}, 20)
context_dates(n, min_new_date) ==
    LastN({d \in 1..n : d < min_new_date}, ContextDays)

\* process_series_incremental up to step 7: the new rows with their features
incremental_rows(in) ==
    LET new_partitions == {d \in 1..in.n : in.last_gold_date = 0 \/ d > in.last_gold_date}
        new_silver == new_partitions \ in.unreadable
        min_new_date == CHOOSE d \in new_silver : \A e \in new_silver : d <= e
        context_silver == context_dates(in.n, min_new_date) \ in.unreadable
        combined_for_features ==
            IF in.gold_nonempty THEN context_silver \cup new_silver ELSE new_silver
        featured_df == backward_features(SortedDates(combined_for_features))
    IN  IF new_partitions = {} THEN [status |-> "no_new_data", rows |-> {}]
        ELSE IF new_silver = {} THEN [status |-> "no_new_records", rows |-> {}]
        ELSE [status |-> "computed",
              rows |-> {featured_df[i] : i \in {x \in 1..Len(featured_df) :
                            in.last_gold_date = 0 \/ featured_df[x].obs_date > in.last_gold_date}}]

\* process_series_full_refresh: the rows computed from the full history
full_refresh_rows(n) ==
    LET featured_df == backward_features(SortedDates(1..n))
    IN  {featured_df[i] : i \in 1..Len(featured_df)}

CtxInputs ==
    UNION {{[n |-> n, last_gold_date |-> w, gold_nonempty |-> g, unreadable |-> u] :
                w \in 0..(n - 1), g \in BOOLEAN,
                u \in {{}} \cup {{d} : d \in 1..n}} : n \in 1..MaxHist}
NoCtxInput == [n |-> 0, last_gold_date |-> 0, gold_nonempty |-> FALSE, unreadable |-> {}]
CtxNotCalled == [status |-> "none", rows |-> {}]

CtxInit ==
    /\ ctx_in \in CtxInputs
    /\ ctx_out = CtxNotCalled
    /\ ctx_pc = "start"

CtxIdle ==
    /\ ctx_in = NoCtxInput
    /\ ctx_out = CtxNotCalled
    /\ ctx_pc = "start"

CallIncrementalFeatures ==
    /\ ctx_pc = "start"
    /\ ctx_in # NoCtxInput
    /\ ctx_out' = incremental_rows(ctx_in)
    /\ ctx_pc' = "done"
    /\ UNCHANGED ctx_in
    /\ UNCHANGED notCtx

CtxNext == CallIncrementalFeatures

(***************************************************************************)
(* MODEL ARTIFACT LOOKUP  (src/models/run_inference_h7.py)                 *)
(*                                                                         *)
(* A file name is the sequence of its pieces between underscores and its   *)
(* extension; a directory is the set of the names in it.                   *)
(***************************************************************************)
MaxDirFiles == 4

FileName(parts, ext) == [parts |-> parts, ext |-> ext]
model_candidates ==
    <<FileName(<<"logreg", "h7", "global">>, "joblib"),
      FileName(<<"logreg", "h7">>, "joblib"),
      FileName(<<"model">>, "joblib")>>
features_candidates ==
    <<FileName(<<"features", "h7">>, "json"),
      FileName(<<"features", "h7", "global">>, "json")>>
metadata_candidates ==
    <<FileName(<<"metadata", "h7">>, "json"),
      FileName(<<"metadata", "h7", "global">>, "json")>>
CandidatesOf(file_type) ==
    CASE file_type = "model" -> model_candidates
      [] file_type = "features" -> features_candidates
      [] file_type = "metadata" -> metadata_candidates

\* the names a model directory may hold
DirNames ==
    SeqToSet(model_candidates) \cup SeqToSet(features_candidates)
        \cup SeqToSet(metadata_candidates)
        \cup {FileName(<<"backup">>, "joblib"), FileName(<<"logreg", "old">>, "joblib"),
              FileName(<<"features", "v2">>, "json"), FileName(<<"features", "old">>, "json"),
              FileName(<<"metadata", "v2">>, "json"), FileName(<<"readme">>, "txt")}

\* the loop over the candidates: the index of the first that exists, 0 if none
m_FirstExisting(dir, candidates) ==
    LET here == {i \in 1..Len(candidates) : candidates[i] \in dir}
    IN  IF here = {} THEN 0 ELSE CHOOSE i \in here : \A j \in here : j <= i
FirstExisting(dir, candidates) ==
    LET here == {i \in 1..Len(candidates) : candidates[i] \in dir}
    IN  IF here = {} THEN 0 ELSE CHOOSE i \in here : \A j \in here : i <= j

\* model_dir.glob("*.joblib"), or model_dir.glob(base + "_*.json") with base
\* the piece of the last candidate before its first underscore
GlobFallback(dir, candidates) ==
    LET last == candidates[Len(candidates)]
    IN  IF last.ext = "joblib" THEN {f \in dir : f.ext = "joblib"}
        ELSE IF last.ext = "json"
        THEN {f \in dir : f.ext = "json" /\ Len(f.parts) >= 2
                            /\ Len(last.parts) >= 2 /\ f.parts[1] = last.parts[1]}
        ELSE {}

FoundFile(f) == [how |-> "return", files |-> {f}]
RaiseMultiple(fs) == [how |-> "FileNotFoundError: Multiple", files |-> fs]
RaiseNotFound(candidates) == [how |-> "FileNotFoundError: Tried", files |-> SeqToSet(candidates)]
FindNotCalled == [how |-> "none", files |-> {}]

\* _find_file(model_dir, candidates, file_type): the possible outcomes
find_file(dir, candidates) ==
    LET k == FirstExisting(dir, candidates)
        globbed == GlobFallback(dir, candidates)
    IN  IF k # 0 THEN {FoundFile(candidates[k])}
        ELSE IF Cardinality(globbed) = 1 THEN {FoundFile(f) : f \in globbed}
        ELSE IF Cardinality(globbed) > 1 THEN {RaiseMultiple(globbed)}
        ELSE {RaiseNotFound(candidates)}

FindInputs ==
    {[dir |-> d, file_type |-> t] :
        d \in {x \in SUBSET DirNames : Cardinality(x) <= MaxDirFiles},
        t \in {"model", "features", "metadata"}}
NoFindInput == [dir |-> {}, file_type |-> "none"]

FindInit ==
    /\ ff_in \in FindInputs
    /\ ff_out = FindNotCalled
    /\ ff_pc = "start"

FindIdle ==
    /\ ff_in = NoFindInput
    /\ ff_out = FindNotCalled
    /\ ff_pc = "start"

CallFindFile ==
    /\ ff_pc = "start"
    /\ ff_in # NoFindInput
    /\ \E out \in find_file(ff_in.dir, CandidatesOf(ff_in.file_type)) : ff_out' = out
    /\ ff_pc' = "done"
    /\ UNCHANGED ff_in
    /\ UNCHANGED notFind

FindNext == CallFindFile

(***************************************************************************)
(* BRONZE BACKFILL: FETCH WITH RETRY  (src/scripts/backfill_bronze.py)     *)
(*                                                                         *)
(* One step is one iteration of the loop of fetch_with_retry: the call of  *)
(* fetch_boc, whose outcome the network chooses, and the handling of that  *)
(* outcome, the sleep included.                                            *)
(***************************************************************************)
MAX_RETRIES == 3
RETRY_DELAY_BASE == 2
MaxFetchCalls == 2

\* what one call of fetch_boc can do: return a response, or raise HTTPError
\* with a code, URLError, TimeoutError, or some other exception
Response(code) == [kind |-> "response", code |-> code]
HTTPError(code) == [kind |-> "HTTPError", code |-> code]
URLError == [kind |-> "URLError", code |-> 0]
TimeoutError == [kind |-> "TimeoutError", code |-> 0]
OtherError == [kind |-> "Exception", code |-> 0]
RetryableCodes == {429, 500, 502, 503, 504}
FetchOutcomes ==
    {Response(200), Response(204), URLError, TimeoutError, OtherError}
        \cup {HTTPError(c) : c \in RetryableCodes \cup {403, 404}}

\* the except clauses that sleep and let the loop go on
m_IsRetried(o) == o.kind # "response"
IsRetried(o) ==
    \/ o.kind = "HTTPError" /\ o.code \in RetryableCodes
    \/ o.kind = "URLError"
    \/ o.kind = "TimeoutError"

NoFetchResult == [how |-> "none", retries |-> 0, error |-> OtherError]

FetchInit ==
    /\ fetch_pc = "idle"
    /\ fetch_attempt = 0
    /\ fetch_hist = <<>>
    /\ fetch_sleeps = <<>>
    /\ fetch_result = NoFetchResult
    /\ fetch_calls = 0

FetchIdle ==
    /\ fetch_pc = "idle"
    /\ fetch_attempt = 0
    /\ fetch_hist = <<>>
    /\ fetch_sleeps = <<>>
    /\ fetch_result = NoFetchResult
    /\ fetch_calls = 0

\* fetch_with_retry is called: last_error = None, the loop starts
CallFetchWithRetry ==
    /\ fetch_pc \in {"idle", "returned", "raised"}
    /\ fetch_calls < MaxFetchCalls
    /\ fetch_calls' = fetch_calls + 1
    /\ fetch_pc' = "loop"
    /\ fetch_attempt' = 0
    /\ fetch_hist' = <<>>
    /\ fetch_sleeps' = <<>>
    /\ fetch_result' = NoFetchResult
    /\ UNCHANGED notFetch

\* one iteration of "for attempt in range(MAX_RETRIES)"
FetchAttempt ==
    /\ fetch_pc = "loop"
    /\ fetch_attempt < MAX_RETRIES
    /\ \E o \in FetchOutcomes :
        /\ fetch_hist' = Append(fetch_hist, o)
        /\ IF o.kind = "response" THEN
                /\ fetch_pc' = "returned"
                /\ fetch_result' = [how |-> "return", retries |-> fetch_attempt, error |-> o]
                /\ UNCHANGED <<fetch_attempt, fetch_sleeps>>
           ELSE IF IsRetried(o) THEN
                /\ fetch_sleeps' = Append(fetch_sleeps, RETRY_DELAY_BASE ^ (fetch_attempt + 1))
                /\ fetch_attempt' = fetch_attempt + 1
                /\ UNCHANGED <<fetch_pc, fetch_result>>
           ELSE
                /\ fetch_pc' = "raised"
                /\ fetch_result' = [how |-> "propagated", retries |-> fetch_attempt, error |-> o]
                /\ UNCHANGED <<fetch_attempt, fetch_sleeps>>
    /\ UNCHANGED fetch_calls
    /\ UNCHANGED notFetch

\* the loop is exhausted: raise Exception("Failed after 3 attempts: ...")
FetchExhausted ==
    /\ fetch_pc = "loop"
    /\ fetch_attempt >= MAX_RETRIES
    /\ fetch_pc' = "raised"
    /\ fetch_result' = [how |-> "failed_after", retries |-> fetch_attempt,
                        error |-> fetch_hist[Len(fetch_hist)]]
    /\ UNCHANGED <<fetch_attempt, fetch_hist, fetch_sleeps, fetch_calls>>
    /\ UNCHANGED notFetch

FetchNext ==
    \/ CallFetchWithRetry
    \/ FetchAttempt
    \/ FetchExhausted

InitFetch == FetchInit /\ PolicyIdle /\ SilverIdle /\ RunIdle /\ PromIdle /\ FeatIdle /\ InferIdle /\ GoldIdle /\ PrepIdle /\ FindIdle /\ CtxIdle
\* a call that has started goes on: fetch_boc gives up after its timeout of
\* 60 seconds and time.sleep returns
SpecFetch == InitFetch /\ [][FetchNext]_vars
                /\ WF_vars(FetchAttempt) /\ WF_vars(FetchExhausted)

InitFind == FindInit /\ PolicyIdle /\ SilverIdle /\ RunIdle /\ PromIdle /\ FeatIdle /\ InferIdle /\ GoldIdle /\ PrepIdle /\ FetchIdle /\ CtxIdle
SpecFind == InitFind /\ [][FindNext]_vars

InitCtx == CtxInit /\ PolicyIdle /\ SilverIdle /\ RunIdle /\ PromIdle /\ FeatIdle /\ InferIdle /\ GoldIdle /\ PrepIdle /\ FetchIdle /\ FindIdle
SpecCtx == InitCtx /\ [][CtxNext]_vars

InitPrep == PrepInit /\ PolicyIdle /\ SilverIdle /\ RunIdle /\ PromIdle /\ FeatIdle /\ InferIdle /\ GoldIdle /\ FetchIdle /\ FindIdle /\ CtxIdle
SpecPrep == InitPrep /\ [][PrepNext]_vars

\* the two merge engines keep their data and their watermark under keys of
\* their own and share no state: a behaviour exercises one of them
EnginesNext ==
    \/ GoldIdle /\ SilverNext
    \/ SilverIdle /\ GoldNext
InitEngines == SilverInit /\ GoldInit /\ PolicyIdle /\ RunIdle /\ PromIdle /\ FeatIdle /\ InferIdle /\ PrepIdle /\ FetchIdle /\ FindIdle /\ CtxIdle
SpecEngines == InitEngines /\ [][EnginesNext]_vars

InitGold == GoldInit /\ PolicyIdle /\ SilverIdle /\ RunIdle /\ PromIdle /\ FeatIdle /\ InferIdle /\ PrepIdle /\ FetchIdle /\ FindIdle /\ CtxIdle
SpecGold == InitGold /\ [][GoldNext]_vars

InitInfer == InferInit /\ PolicyIdle /\ SilverIdle /\ RunIdle /\ PromIdle /\ FeatIdle /\ GoldIdle /\ PrepIdle /\ FetchIdle /\ FindIdle /\ CtxIdle
SpecInfer == InitInfer /\ [][InferNext]_vars

InitFeat == FeatInit /\ PolicyIdle /\ SilverIdle /\ RunIdle /\ PromIdle /\ InferIdle /\ GoldIdle /\ PrepIdle /\ FetchIdle /\ FindIdle /\ CtxIdle
SpecFeat == InitFeat /\ [][FeatNext]_vars

InitRun == RunInit /\ PolicyIdle /\ SilverIdle /\ FeatIdle /\ InferIdle /\ GoldIdle /\ PrepIdle /\ FetchIdle /\ FindIdle /\ CtxIdle
SpecRun == InitRun /\ [][RunNext]_vars

InitSilver == SilverInit /\ PolicyIdle /\ RunIdle /\ PromIdle /\ FeatIdle /\ InferIdle /\ GoldIdle /\ PrepIdle /\ FetchIdle /\ FindIdle /\ CtxIdle
SpecSilver == InitSilver /\ [][SilverNext]_vars

InitPolicy == PolicyInit /\ SilverIdle /\ RunIdle /\ PromIdle /\ FeatIdle /\ InferIdle /\ GoldIdle /\ PrepIdle /\ FetchIdle /\ FindIdle /\ CtxIdle
SpecPolicy == InitPolicy /\ [][PolicyNext]_vars

(***************************************************************************)
(* Claims about the daily run and the promotion                            *)
(***************************************************************************)
\* C3: when a source file of the batch is missing or a copy into the
\* staging directory fails, promote_to_latest raises and every file of the
\* latest directory is what it was before the call.
C3_FailedPromoteLeavesLatest ==
    prom_fault \in {"missing_source", "copy"} =>
        /\ prom_pc = "raised"
        /\ latest = prom_before

\* C3 witness: the second copy of a batch fails, after the first file was
\* staged, with files already in latest.
C3_Witness ==
    /\ prom_fault = "copy"
    /\ prom_pc = "raised"
    /\ prom_i = 2
    /\ prom_before # EmptyDir
    /\ \E k \in 1..Len(prom_files) :
        prom_files[k].content # prom_before[prom_files[k].dst]

\* C15: at every instant of a promote_to_latest call, and after a call that
\* raised, the promoted files in the latest directory are all-or-nothing:
\* every one has its previous content or every one has its new content.
C15_PromotionAllOrNothing ==
    prom_pc \in {"validate", "copy", "replace", "cleanup", "raised", "returned"} =>
        \/ \A k \in 1..Len(prom_files) :
                latest[prom_files[k].dst] = prom_before[prom_files[k].dst]
        \/ \A k \in 1..Len(prom_files) :
                latest[prom_files[k].dst] = prom_files[k].content

\* C9: when gold sync, inference, manifest building or latest-artifact
\* building fails, main raises and the latest directory is what it was
\* before the run.
C9_FailedRunLeavesLatest ==
    run_fail \in {"sync", "inference", "manifest", "build_latest"} =>
        /\ run_pc = "raised"
        /\ latest = latest_before
        /\ run_log = <<>>

\* C9 witness: inference fails in a run that follows a promotion.
C9_Witness ==
    /\ run_fail = "inference"
    /\ run_pc = "raised"
    /\ latest_before[PredictionsFile] # Absent
    /\ latest_before[ManifestFile] # Absent

Downstream == {"publish_run", "publish_run_failed", "publish_latest",
               "publish_latest_failed", "email", "email_failed"}

\* C10: an upload or an email happens only after promote_to_latest has
\* returned; after a failed publish_run_outputs or publish_latest_outputs
\* main raises and no further upload or email of that run happens.
C10_DownstreamAfterPromotion ==
    /\ \A k \in 1..Len(run_log) :
        /\ run_log[k] \in Downstream =>
                k > 1 /\ run_log[1] = "promoted" /\ prom_pc = "returned"
        /\ run_log[k] \in {"publish_run_failed", "publish_latest_failed"} =>
                k = Len(run_log) /\ run_pc = "raised"
    /\ run_fail \in {"publish_run", "publish_latest"} =>
        /\ run_pc = "raised"
        /\ \A k \in 1..Len(run_log) : run_log[k] \notin {"email", "email_failed"}
    /\ run_fail = "publish_run" =>
        \A k \in 1..Len(run_log) :
            run_log[k] \notin {"publish_latest", "publish_latest_failed"}

\* C10 witness: publish_run_outputs fails after a promotion.
C10_Witness ==
    /\ run_log = <<"promoted", "publish_run_failed">>
    /\ run_fail = "publish_run"
    /\ run_pc = "raised"

\* C29: after main has promoted, every artifact file in the latest
\* directory (predictions, manifest, the JSON and the CSV file of a pair) was
\* produced by that run, whatever runs came before: no file of an earlier
\* run remains beside them.
\* (Taken here for the runs that found the latest directory as one earlier
\* promotion left it whole: the JSON and the CSV file of a pair together.)
C29_LatestFromThisRun ==
    (/\ run_pc \in {"publish_run", "publish_latest", "email"}
     /\ \A q \in Pairs : latest_before[JsonFile(q)] = latest_before[CsvFile(q)]
     /\ latest_before[PredictionsFile] = latest_before[ManifestFile]) =>
        \A n \in FileNames : latest[n] \in {Absent, run_count}

\* C30: when --publish (or --email) is given and the publish (or email)
\* section is missing from the config, main raises at once: before the run
\* directory is created, before inference runs and before the latest
\* directory is modified.
C30_MissingSectionRaisesFirst ==
    run_fail \in {"publish_config", "email_config"} =>
        /\ run_pc = "raised"
        /\ run_dir = EmptyDir
        /\ latest = latest_before
        /\ run_log = <<>>

(***************************************************************************)
(* Claims about the feature builder                                        *)
(***************************************************************************)
\* the frame g with the row at position p replaced by a row whose value,
\* prev_value and daily_return are all NaN: whatever is computed from that
\* row becomes NaN
Poisoned(g, p) ==
    GoldFrame(g.cols, g.series_ids, g.n, g.base,
              {b \in g.bad : b.pos # p}
                  \cup {[pos |-> p, row |-> GoldRow("nan", "nan", "nan")]})

\* C16: for every row that build_features_h7_from_gold returns, no
\* predictor column is computed from an input row after it: replacing the
\* values of any later row leaves every predictor of the row as it was (no
\* predictor turns NaN and no rolling std changes between zero and
\* non-zero).
C16_PredictorsIgnoreLaterRows ==
    (feat_pc = "done" /\ feat_out.err = "none") =>
        \A r \in feat_out.out : \A p \in (r.idx + 1)..(feat_gold.n - 1) :
            /\ \A c \in SeqToSet(NUMERIC_FEATURES_H7) :
                    IsNaN(Poisoned(feat_gold, p), r.idx, c) = IsNaN(feat_gold, r.idx, c)
            /\ \A w \in {5, 10, 21, 63} :
                    RollingStdZero(Poisoned(feat_gold, p), r.idx, w)
                        = RollingStdZero(feat_gold, r.idx, w)

\* C16 witness: a returned row with later rows in the frame, one of them
\* exceptional, whose target does change when the row H after it is
\* replaced while its predictors do not.
C16_Witness ==
    /\ feat_pc = "done" /\ feat_out.err = "none"
    /\ \E r \in feat_out.out :
        /\ r.idx + H <= feat_gold.n - 1
        /\ \E b \in feat_gold.bad : b.pos > r.idx
        /\ ~IsNaN(feat_gold, r.idx, "fwd_return_7d")
        /\ IsNaN(Poisoned(feat_gold, r.idx + H), r.idx, "fwd_return_7d")
        /\ \A c \in SeqToSet(NUMERIC_FEATURES_H7) :
                ~IsNaN(Poisoned(feat_gold, r.idx + H), r.idx, c)

RowsOf(g) == {g.base} \cup {b.row : b \in g.bad}
Returned == {r.idx : r \in feat_out.out}

\* the frame has the required columns and no missing or zero value or
\* prev_value, nor a missing or infinite daily_return
NoMissingOrZero(g) ==
    /\ RequiredCols \subseteq g.cols
    /\ \A r \in RowsOf(g) : r.value = "num" /\ r.prev \in {"num", "same"}
    /\ "daily_return" \in g.cols => \A r \in RowsOf(g) : r.dr \in {"num", "flat"}

\* moreover its ret_1d is not the same number over a whole window
Regular(g) == NoMissingOrZero(g) /\ g.base = Generic

\* C17 as stated: of a series without missing or zero value/prev_value the
\* rows removed are the leading rows without a full 252-row window (of
\* value, or of vol_21d) and the H rows at the tail, and no other.
C17_AsStated ==
    (feat_pc = "done" /\ feat_out.err = "none" /\ NoMissingOrZero(feat_gold)) =>
        \/ Returned = {i \in 0..(feat_gold.n - H - 1) : i >= MedWindow - 1}
        \/ Returned = {i \in 0..(feat_gold.n - H - 1) : i >= FirstFull}

\* C17: of a series without missing or zero value/prev_value, with finite
\* ret_1d that is not constant over a window, the rows removed are the
\* first 271 (the 20 rows before vol_21d has its 21 rows and the 251 more
\* before its 252-row median has a full window) and the H rows at the tail,
\* and no other: N - 278 rows are returned when N >= 278, none otherwise.
C17_DroppedRows ==
    (feat_pc = "done" /\ feat_out.err = "none" /\ Regular(feat_gold)) =>
        /\ Returned = {i \in 0..(feat_gold.n - H - 1) : i >= FirstFull}
        /\ Cardinality(feat_out.out) =
                IF feat_gold.n >= FirstFull + H
                THEN feat_gold.n - (FirstFull + H) ELSE 0

\* C17 witness: a regular frame with a day of unchanged value near its end,
\* longer than 278 rows: rows 271 .. N - 8 are returned.
C17_Witness ==
    /\ feat_pc = "done" /\ feat_out.err = "none" /\ Regular(feat_gold)
    /\ feat_gold.n = MaxRows
    /\ \E b \in feat_gold.bad : b.row.prev = "same"
    /\ Returned = FirstFull..(MaxRows - H - 1)
    /\ Cardinality(Returned) > 1

\* C4: every row that build_features_h7_from_gold returns is non-NaN in
\* every feature column and in both target columns.
C4_OutputHasNoNaN ==
    (feat_pc = "done" /\ feat_out.err = "none") =>
        \A r \in feat_out.out : r.nan = {}

\* C4 witness: a frame with a full window whose value 7 rows after a
\* complete row is NaN: that row has all its features and no fwd_return_7d,
\* and is not returned, while other rows are.
C4_Witness ==
    /\ feat_pc = "done" /\ feat_out.err = "none"
    /\ feat_out.out # {}
    /\ \E i \in FirstFull..(feat_gold.n - H - 1) :
        /\ \A r \in feat_out.out : r.idx # i
        /\ \A c \in SeqToSet(NUMERIC_FEATURES_H7) : ~IsNaN(feat_gold, i, c)
        /\ IsNaN(feat_gold, i, "fwd_return_7d")

(***************************************************************************)
(* Claims about the inference runner                                       *)
(***************************************************************************)
\* C19: the rows that run_inference writes are in ascending
\* (obs_date, series_id) order, and every run over the same gold files and
\* artifacts writes the same rows in the same order.
C19_SortedAndReproducible ==
    (inf_pc = "done" /\ inf_file.written) =>
        /\ \A i, j \in 1..Len(inf_file.rows) :
                i < j => RowBefore(inf_file.rows[i], inf_file.rows[j])
        /\ \A ran \in run_inference(inf_in) : ran.file = inf_file

\* C19 witness: both series have predictions for the same two dates, so
\* the sort on obs_date alone can leave the rows in more than one order.
C19_Witness ==
    /\ inf_pc = "done" /\ inf_file.written
    /\ Len(inf_file.rows) = 2 * MaxObsDate
    /\ Cardinality(sort_values(ConcatPredictions(inf_in.files, 1))) > 1

SeriesWritten == {inf_file.rows[k].series_id : k \in 1..Len(inf_file.rows)}

\* C14: when the processing of a series found under gold_root fails at any
\* step, loading its gold file included, run_inference raises and writes no
\* output file; a written output file has predictions for every series
\* found under gold_root (of those whose features have any row).
C14_FailedSeriesAborts ==
    inf_pc = "done" =>
        /\ (\E f \in inf_in.files : f.status # "ok")
                => (inf_out # "none" /\ ~inf_file.written)
        /\ inf_file.written =>
                \A f \in inf_in.files :
                    (f.status # "ok" \/ f.dates # {}) => f.series_id \in SeriesWritten

\* C6: the predictions table that run_inference writes has exactly the
\* columns obs_date, series_id, p_up_logreg, action_logreg, in that order;
\* when the concatenated frame lacks one of them or has an extra column,
\* run_inference raises and no output file is written.  (A frame that
\* carries obs_date as its DatetimeIndex has it.)
C6_ExactOutputColumns ==
    inf_pc = "done" =>
        /\ inf_file.written => inf_file.columns = REQUIRED_COLS
        /\ (\/ SeqToSet(REQUIRED_COLS) \ ColumnsAtCheck(inf_in.frame) # {}
            \/ ColumnsAtCheck(inf_in.frame) \ SeqToSet(REQUIRED_COLS) # {})
              => (inf_out # "none" /\ ~inf_file.written)

\* C6 witness: every series is processed, the frame has the four columns
\* and one more, and the call is not a dry run: it raises ValueError.
C6_Witness ==
    /\ inf_pc = "done"
    /\ inf_in.artifacts_ok /\ ~inf_in.dry_run
    /\ inf_in.files # {} /\ \A f \in inf_in.files : f.status = "ok"
    /\ inf_in.frame.columns = REQUIRED_COLS \o <<"confidence">>
    /\ inf_out = "ValueError"
    /\ ~inf_file.written

(***************************************************************************)
(* Claims about the bronze -> silver merge                                 *)
(***************************************************************************)
PartitionOf(rows, d) == {r \in rows : r.obs_date = d}
\* the part of a row that comes from its bronze source
Core(r) == [obs_date |-> r.obs_date, value |-> r.value,
            ingested_at |-> r.ingested_at, raw_s3_key |-> r.raw_s3_key]

\* C2: after any sequence of runs silver holds at most one row per obs_date
\* of the series, and that row comes from the most recent ingestion among all
\* rows that were merged for that obs_date.
C2_LatestIngestionSurvives ==
    /\ \A r1 \in silver : \A r2 \in silver : r1.obs_date = r2.obs_date => r1 = r2
    /\ \A r \in silver : \A m \in sil_merged :
        m[1] = r.obs_date => m[2] <= r.ingested_at.ts

\* an incremental run right after a run, no bronze file added in between
Rerun ==
    /\ sil_runs' = sil_runs + 1
    /\ sil_last'.kind = "lambda" /\ ~sil_last'.full_refresh
    /\ sil_last.kind # "none"
    /\ sil_last.files = Cardinality(bronze)
NoOp ==
    /\ sil_last'.status = "no_new_files"
    /\ silver' = silver
    /\ sil_wm' = sil_wm
\* the watermark is at or past every bronze file
WatermarkCovers ==
    \A f \in bronze : sil_wm # NoWatermark /\ f.ts <= sil_wm.last_ingest_ts
\* the last run succeeded and its newest file was among those it read
LastRunReadNewest ==
    /\ sil_last.status = "success"
    /\ bronze # {}
    /\ \/ sil_last.kind = "backfill"
       \/ Max({f.ts : f \in bronze}) \notin sil_last.unreadable

TwoFullRefreshes ==
    /\ sil_last.kind = "lambda" /\ sil_last.full_refresh
    /\ sil_prev.kind = "lambda" /\ sil_prev.full_refresh
    /\ sil_last.files = sil_prev.files
    /\ sil_last.status = "success"
SameReads ==
    /\ sil_prev.status = "success"
    /\ sil_last.unreadable = sil_prev.unreadable
    /\ sil_last.nometa = sil_prev.nometa
    /\ sil_last.unreadableDates = {}
Listed ==
    {f \in bronze : sil_last'.full_refresh \/ ~sil_last'.wm_read
                        \/ sil_wm = NoWatermark \/ f.ts > sil_wm.last_ingest_ts}
Readable == {f \in Listed : f.ts \notin sil_last'.unreadable}
HasRecords(f) == \E d \in Dates : f.obs[d] # NoValue

\* C22: in process_series a bronze file whose read or parse raises is
\* skipped, the other files of the run are still merged and the run
\* completes (unless a put raises); a file whose sidecar is missing is still
\* merged, its rows carrying the file's ingest_ts as ingested_at.
C22_SkipUnreadableKeepSidecarless ==
    [][(sil_runs' # sil_runs /\ sil_last'.kind = "lambda" /\ sil_last'.put_ok) =>
        /\ sil_last'.status \in {"no_new_files", "no_records", "success"}
        /\ sil_last'.status = "success" <=> \E f \in Readable : HasRecords(f)
        /\ \A f \in Readable : \A d \in Dates : f.obs[d] # NoValue =>
                /\ <<d, f.ts>> \in sil_merged'
                /\ \E r \in silver' :
                        /\ r.obs_date = d
                        /\ ~StrLess(r.ingested_at,
                                    Stamp(IF f.ts \in sil_last'.nometa THEN "compact" ELSE "iso", f.ts))
        /\ \A f \in Listed : \A r \in silver' :
                (f.ts \in sil_last'.nometa /\ r.raw_s3_key = f.ts /\ r.run_id = sil_runs')
                    => r.ingested_at = Stamp("compact", f.ts)]_vars

\* C22 witness: a run over two new files, one of them unreadable, that
\* succeeded and wrote the rows of the other.
C22_Witness ==
    /\ sil_last.kind = "lambda" /\ sil_last.status = "success"
    /\ sil_last.unreadable # {}
    /\ Cardinality(bronze) = 2
    /\ sil_last.before = {}
    /\ \E r \in silver : r.run_id = sil_runs /\ r.raw_s3_key \notin sil_last.unreadable
    /\ \A f \in bronze : HasRecords(f)

LambdaSucceeded == sil_last.kind = "lambda" /\ sil_last.status = "success"

\* C27: after every successful process_series run the watermark's
\* last_obs_date is the latest observation date present in silver, in
\* whatever order snapshots of older or newer date ranges arrive.
\* (Taken here for the runs that follow a successful run and met no read
\* failure, so that only the order of the snapshots is at play.)
C27_WatermarkIsLatestDate ==
    (/\ LambdaSucceeded /\ sil_last.wm_read
     /\ sil_last.unreadable = {} /\ sil_last.unreadableDates = {}
     /\ sil_prev.status \in {"none", "success"} /\ sil_prev.unreadable = {})
        => sil_wm.last_obs_date = Max({r.obs_date : r \in silver})

\* every run so far was an incremental run of the lambda
IncrementalRun(run) == run.kind = "lambda" /\ ~run.full_refresh /\ run.put_ok
OnlyIncrementalRuns ==
    /\ sil_runs <= 2
    /\ sil_runs >= 1 => IncrementalRun(sil_last)
    /\ sil_runs = 2 => IncrementalRun(sil_prev)

\* C28: after any sequence of incremental runs, every bronze file whose
\* ingest_ts is at or before the watermark's last_ingest_ts has had its
\* observations merged into silver: a file skipped because its read failed
\* stays newer than the watermark, for a later run to pick up.
C28_WatermarkedFilesMerged ==
    (OnlyIncrementalRuns /\ sil_wm # NoWatermark) =>
        \A f \in bronze : f.ts <= sil_wm.last_ingest_ts =>
            \A d \in Dates : f.obs[d] # NoValue => <<d, f.ts>> \in sil_merged

(***************************************************************************)
(* Claims about the decision policy                                        *)
(***************************************************************************)
Labels == {"UP", "DOWN", "SIDEWAYS"}
LabelsReturned == pol_pc \in {"applied", "done"} /\ pol_labels.err = "none"
ConfReturned == pol_pc = "done" /\ pol_conf.err = "none"
\* 1 - t, and the open interval (0.5, 1.0) written out
LowOf(t) == Num(Scale - t.c, 0 - t.f)
OutsideHalfOne(t) ==
    \/ 2 * t.c < Scale
    \/ (2 * t.c = Scale /\ t.f <= 0)
    \/ t.c > Scale
    \/ (t.c = Scale /\ t.f >= 0)
InUnitInterval(p) == Le(Zero, p) /\ Le(p, One)

\* C1 as stated: the label is UP exactly when p_up >= t, DOWN exactly when
\* p_up <= 1 - t, and SIDEWAYS for every other p_up.
C1_AsStated ==
    LabelsReturned =>
        \A i \in DOMAIN pol_p :
            pol_labels.out[i] =
                IF Le(pol_t, pol_p[i]) THEN "UP"
                ELSE IF Le(pol_p[i], LowOf(pol_t)) THEN "DOWN"
                ELSE "SIDEWAYS"

\* C1 amended: for 0.5 < t < 1 every p_up gets exactly one label; it is UP
\* when p_up >= t - 1e-10 (so p_up exactly t is UP), otherwise DOWN when
\* p_up <= 1 - t + 1e-10 (so p_up exactly 1 - t is DOWN unless it is also
\* within 1e-10 of t), and SIDEWAYS otherwise.
C1_ThresholdLabels ==
    (pol_pc \in {"applied", "done"} /\ ~OutsideHalfOne(pol_t)) =>
        /\ pol_labels.err = "none"
        /\ DOMAIN pol_labels.out = DOMAIN pol_p
        /\ \A i \in DOMAIN pol_p :
            LET p == pol_p[i]
                l == pol_labels.out[i]
                nearUp == Le(Num(pol_t.c, pol_t.f - EpsFine), p)
                nearDown == Le(p, Num(Scale - pol_t.c, EpsFine - pol_t.f))
            IN  /\ l \in Labels
                /\ Le(pol_t, p) => l = "UP"
                /\ l = "UP" <=> nearUp
                /\ (Le(p, LowOf(pol_t)) /\ ~nearUp) => l = "DOWN"
                /\ l = "DOWN" <=> (nearDown /\ ~nearUp)
                /\ l = "SIDEWAYS" <=> (~nearDown /\ ~nearUp)

\* C1 witness: p_up exactly t is UP and p_up exactly 1 - t is DOWN.
C1_Witness ==
    /\ LabelsReturned
    /\ pol_p[1] = pol_t /\ pol_labels.out[1] = "UP"
    /\ pol_p[2] = LowOf(pol_t) /\ pol_labels.out[2] = "DOWN"

\* C7 as stated: for p_up in [0,1] the confidence lies in [0,1] and equals
\* (p - t)/(1 - t) under UP, ((1 - t) - p)/(1 - t) under DOWN, 0.0 under SIDEWAYS.
C7_AsStated ==
    ConfReturned =>
        \A i \in DOMAIN pol_p :
            InUnitInterval(pol_p[i]) =>
                LET cf == pol_conf.out[i]
                    l == pol_labels.out[i]
                IN  /\ Le(Zero, cf.num) /\ Le(cf.num, cf.den)
                    /\ cf.den = LowOf(pol_t)
                    /\ l = "UP" => cf.num = Sub(pol_p[i], pol_t)
                    /\ l = "DOWN" => cf.num = Sub(LowOf(pol_t), pol_p[i])
                    /\ l = "SIDEWAYS" => cf.num = Zero

\* C7 amended: for p_up in [0,1] the confidence lies in [0,1] and equals
\* (p - t)/(1 - t) clipped to [0,1] under UP and ((1 - t) - p)/(1 - t) clipped
\* to [0,1] under DOWN: it is 0.0, not the negative quotient, for a p_up that
\* is labelled UP or DOWN while up to 1e-10 inside the band; 0.0 under SIDEWAYS.
C7_ConfidenceClipped ==
    ConfReturned =>
        \A i \in DOMAIN pol_p :
            InUnitInterval(pol_p[i]) =>
                LET cf == pol_conf.out[i]
                    l == pol_labels.out[i]
                    p == pol_p[i]
                IN  /\ Le(Zero, cf.num) /\ Le(cf.num, cf.den)
                    /\ cf.den = LowOf(pol_t)
                    /\ l = "UP" =>
                        cf.num = IF Lt(p, pol_t) THEN Zero ELSE Sub(p, pol_t)
                    /\ l = "DOWN" =>
                        cf.num = IF Lt(LowOf(pol_t), p) THEN Zero
                                 ELSE Sub(LowOf(pol_t), p)
                    /\ l = "SIDEWAYS" => cf.num = Zero

\* C7 witness: an UP just inside the band with confidence 0.0 next to a DOWN
\* with a positive confidence.
C7_Witness ==
    /\ ConfReturned
    /\ pol_labels.out[1] = "UP" /\ Lt(pol_p[1], pol_t)
    /\ pol_conf.out[1].num = Zero
    /\ pol_labels.out[2] = "DOWN" /\ Lt(Zero, pol_conf.out[2].num)
    /\ InUnitInterval(pol_p[1]) /\ InUnitInterval(pol_p[2])

\* C20: for a threshold t in (0.5, 1) the confidence does not decrease as p
\* moves away from the sideways band: t <= p1 <= p2 implies
\* confidence(p1) <= confidence(p2), and p2 <= p1 <= 1 - t implies
\* confidence(p1) <= confidence(p2).  (Both confidences have the
\* denominator 1 - t > 0, so the numerators are compared.)
C20_ConfidenceMonotone ==
    (pol_pc = "done" /\ pol_conf.err = "none") =>
        LET low == Sub(One, pol_t)
            p1 == pol_p[1]
            p2 == pol_p[2]
            c1 == pol_conf.out[1]
            c2 == pol_conf.out[2]
        IN  /\ GtHalf(pol_t) /\ Lt(pol_t, One)
            /\ c1.den = low /\ c2.den = low /\ Lt(Zero, low)
            /\ (Le(pol_t, p1) /\ Le(p1, p2)) => Le(c1.num, c2.num)
            /\ (Le(p2, p1) /\ Le(p1, low)) => Le(c1.num, c2.num)

\* C20 witness: two probabilities at and above t with confidences 0 < c1 < c2
\* below 1.
C20_Witness ==
    /\ pol_pc = "done" /\ pol_conf.err = "none"
    /\ Lt(pol_t, pol_p[1]) /\ Lt(pol_p[1], pol_p[2]) /\ Lt(pol_p[2], One)
    /\ Lt(Zero, pol_conf.out[1].num)
    /\ Lt(pol_conf.out[1].num, pol_conf.out[2].num)
    /\ Lt(pol_conf.out[2].num, pol_conf.out[2].den)

IncrementalWrote == gold_last.kind = "incremental" /\ gold_last.delta # {}

DeltaAfterWatermark ==
    gold_last.last_gold_date # NoDate =>
        /\ \A r \in gold_last.delta : r.obs_date > gold_last.last_gold_date
        /\ \A r \in SeqRange(gold_file) \ SeqRange(gold_last.before) :
                r.obs_date > gold_last.last_gold_date

\* C12 as stated: every row that process_series_incremental adds to gold
\* has obs_date after the last_obs_date of the watermark it read, and no
\* silver row read as context is part of the written delta.
C12_AsStated ==
    IncrementalWrote =>
        /\ DeltaAfterWatermark
        /\ \A r \in gold_last.delta : r.obs_date \notin gold_last.context

\* C12: every row that process_series_incremental adds to gold has obs_date
\* after the last_obs_date of the watermark it read; a silver row read as
\* context is part of the written delta only when it comes from a partition
\* that was listed as new and could not be read with the new partitions.
C12_DeltaAfterWatermark ==
    IncrementalWrote =>
        /\ DeltaAfterWatermark
        /\ \A r \in gold_last.delta :
                r.obs_date \in gold_last.context => r.obs_date \in gold_last.unread

\* C12 witness: an incremental run that read a watermark and context
\* partitions wrote a delta whose first row was computed from a context row.
C12_Witness ==
    /\ IncrementalWrote
    /\ gold_last.status = "success"
    /\ gold_last.last_gold_date # NoDate
    /\ gold_last.context # {}
    /\ gold_last.unread = {}
    /\ \A r \in gold_last.delta : r.prev_value # NoValue

\* C13: after any sequence of incremental and full-refresh runs the gold
\* file holds at most one row per obs_date of the series.
C13_OneRowPerDate ==
    \A i, j \in 1..Len(gold_file) :
        gold_file[i].obs_date = gold_file[j].obs_date => i = j

\* C13 witness: an incremental run after an earlier run merged rows for
\* dates the gold file already held.
C13_Witness ==
    /\ IncrementalWrote
    /\ \E r \in gold_last.delta, b \in SeqRange(gold_last.before) :
            r.obs_date = b.obs_date /\ b.run_id < r.run_id
    /\ \E b \in SeqRange(gold_file) : b.run_id < gold_runs
    /\ Len(gold_file) >= 2

\* C25: an incremental run appends to the gold file and never replaces it:
\* every obs_date that had a row in gold before process_series_incremental
\* still has one after it, whatever the outcome of the storage reads of the
\* run.  (The claim also asks for the same feature values; the rows need
\* only be there for this formula.)
C25_ExistingRowsKept ==
    gold_last.kind = "incremental" =>
        \A r \in SeqRange(gold_last.before) :
            \E q \in SeqRange(gold_file) : q.obs_date = r.obs_date

(***************************************************************************)
(* CLAIMS: THE WATERMARKS OF THE TWO MERGE ENGINES  (SpecEngines)          *)
(***************************************************************************)
SilverRan == sil_runs' # sil_runs /\ sil_last'.kind = "lambda"
GoldRan == gold_runs' # gold_runs

\* C21: in both merge engines the watermark is read before the merge and
\* written only after every data write of the run has succeeded: a run that
\* raises or returns a non-success status leaves the watermark as it was, and
\* a run that moves the watermark has put its last partition (bronze to
\* silver) or the gold file (silver to gold) with what the watermark names.
C21_WatermarkAfterData ==
    [][/\ SilverRan =>
            /\ sil_last'.status # "success" => sil_wm' = sil_wm
            /\ sil_wm' # sil_wm =>
                    \E r \in silver' : /\ r.obs_date = sil_wm'.last_obs_date
                                        /\ r.processed_at = sil_runs'
       /\ GoldRan =>
            /\ gold_last'.status # "success" => gold_wm' = gold_wm
            /\ gold_wm' # gold_wm =>
                    /\ gold_last'.delta # {}
                    /\ gold_wm' = MaxObsDateOf(gold_file')
            /\ gold_last'.kind = "incremental" =>
                    gold_last'.last_gold_date \in {gold_wm, NoDate}]_vars

\* C21 witness: a silver-to-gold run whose put of the gold file succeeded and
\* whose put of the watermark raised: the file is new, the watermark is not.
C21_Witness ==
    /\ gold_last.status = "error"
    /\ gold_last.kind = "incremental"
    /\ gold_file # gold_last.before
    /\ gold_last.before # NoGoldFile
    /\ gold_wm # NoDate
    /\ gold_wm < MaxObsDateOf(gold_file)

(***************************************************************************)
(* CLAIMS: FETCH WITH RETRY  (SpecFetch)                                   *)
(***************************************************************************)
\* the failures after which the claim allows another attempt
Transient(o) ==
    \/ o.kind = "HTTPError" /\ o.code \in {429, 500, 502, 503, 504}
    \/ o.kind \in {"URLError", "TimeoutError"}
TransientCount == Cardinality({i \in 1..Len(fetch_hist) : Transient(fetch_hist[i])})
FetchBounded ==
    /\ Len(fetch_hist) <= 3
    /\ \A i \in 1..Len(fetch_hist) :
            i < Len(fetch_hist) => Transient(fetch_hist[i])
    /\ TransientCount <= 3
    /\ fetch_sleeps = SubSeq(<<2, 4, 8>>, 1, TransientCount)
    /\ \A i \in 1..Len(fetch_hist) :
            (fetch_hist[i].kind = "HTTPError" /\ ~Transient(fetch_hist[i])) =>
                /\ i = Len(fetch_hist)
                /\ fetch_pc = "raised"
                /\ fetch_result.how = "propagated"
                /\ fetch_result.error = fetch_hist[i]
    /\ fetch_pc = "returned" =>
            /\ fetch_hist[Len(fetch_hist)].kind = "response"
            /\ fetch_result.retries = Len(fetch_hist) - 1
    /\ (Len(fetch_hist) = 3 /\ Transient(fetch_hist[3])) =>
            /\ fetch_pc \in {"loop", "raised"}
            /\ fetch_pc = "raised" => fetch_result.how = "failed_after"
    /\ (fetch_pc = "raised" /\ fetch_result.how = "failed_after") => Len(fetch_hist) = 3

\* C23: fetch_with_retry calls fetch_boc at most 3 times per call and always
\* terminates; it tries again only after HTTP 429/500/502/503/504, a URL
\* error or a timeout, sleeping 2, 4 and 8 seconds; any other HTTP error
\* propagates at once; after the third failed attempt it raises.
C23_BoundedRetry ==
    /\ []FetchBounded
    /\ (fetch_pc = "loop") ~> (fetch_pc \in {"returned", "raised"})

\* C23 witness: three transient failures, the three sleeps, then the raise.
C23_Witness ==
    /\ fetch_pc = "raised"
    /\ fetch_result.how = "failed_after"
    /\ fetch_sleeps = <<2, 4, 8>>
    /\ Len(fetch_hist) = 3

(***************************************************************************)
(* CLAIMS: MODEL ARTIFACT LOOKUP  (SpecFind)                               *)
(***************************************************************************)
FindCandidates == CandidatesOf(ff_in.file_type)
CandidatesHere == {i \in 1..Len(FindCandidates) : FindCandidates[i] \in ff_in.dir}
\* the files of the directory that the fallback pattern of the type matches
PatternMatches ==
    IF ff_in.file_type = "model" THEN {f \in ff_in.dir : f.ext = "joblib"}
    ELSE {f \in ff_in.dir : f.ext = "json" /\ f.parts[1] = ff_in.file_type
                                /\ Len(f.parts) > 1}

\* C24: _find_file returns the first candidate, in the fixed order, that
\* exists in model_dir; with no candidate there and more than one file
\* matching the fallback pattern it raises an error naming all of them and
\* picks none; with nothing matching it raises an error naming the
\* candidates tried.
C24_FirstCandidateOrError ==
    ff_pc = "done" =>
        /\ CandidatesHere # {} =>
                \E i \in CandidatesHere :
                    /\ \A j \in CandidatesHere : i <= j
                    /\ ff_out = [how |-> "return", files |-> {FindCandidates[i]}]
        /\ (CandidatesHere = {} /\ Cardinality(PatternMatches) > 1) =>
                /\ ff_out.how = "FileNotFoundError: Multiple"
                /\ ff_out.files = PatternMatches
        /\ (CandidatesHere = {} /\ PatternMatches = {}) =>
                /\ ff_out.how = "FileNotFoundError: Tried"
                /\ ff_out.files = SeqToSet(FindCandidates)

\* C24 witness: the second and third model candidates are both there, with
\* another joblib file, and the second is returned.
C24_Witness ==
    /\ ff_pc = "done"
    /\ ff_in.file_type = "model"
    /\ CandidatesHere = {2, 3}
    /\ Cardinality(PatternMatches) = 3
    /\ ff_out.how = "return"

(***************************************************************************)
(* CLAIMS: THE WINDOWS OF THE GOLD FEATURES  (SpecCtx)                     *)
(***************************************************************************)
SameAsFullRefresh ==
    \A r \in ctx_out.rows :
        \E q \in full_refresh_rows(ctx_in.n) : q.obs_date = r.obs_date /\ q = r
\* the run read the existing gold file (or there is none and no watermark)
\* and every silver partition it asked for
ReadEverything ==
    /\ ctx_in.unreadable = {}
    /\ ctx_in.gold_nonempty \/ ctx_in.last_gold_date = 0

FeatureCols == prep_in.feature_spec.categorical \o prep_in.feature_spec.numeric
MissingColumns == MissingFrom(FeatureCols, prep_in.columns)
ExtraColumns == SeqToSet(prep_in.columns) \ SeqToSet(FeatureCols)

=============================================================================
